---- MODULE Spec2Model ----
(***************************************************************************)
(* Collaborative document synchronisation of AppFlowy-Web: the shared      *)
(* block tree (Yjs document), the editable tree (Slate editor) and the     *)
(* translator that patches the editable tree from shared-tree events.      *)
(*                                                                         *)
(* Paths are 0-based as in the source; the child at path element i of a    *)
(* children sequence s is s[i + 1].                                        *)
(***************************************************************************)
EXTENDS Integers, Sequences, FiniteSets, TLC

(***************************************************************************)
(* Bounds                                                                  *)
(***************************************************************************)
\* Highest block id the block verbs ever allocate.
MaxBlockId == 6
\* Most block verbs invoked in one session.
MaxVerbs == 2
\* Most characters a request path carries behind its first component.
MaxTail == 4
\* Highest block id the model ever allocates (ids are never reused).
MaxId == 4
\* Most shared-tree operations the model performs, over all transactions.
MaxOps == 3
\* Most operations when transactions also change data and replace records.
MaxDataOps == 3
\* Most operations when a batch may be translated a second time.
MaxReOps == 3
\* Highest block id the editing commands may allocate.
MaxCmdId == 6
\* Most shared-tree operations before deleteBlock is invoked.
MaxEditOps == 2
\* Most workspace switches in one session.
MaxSwitches == 2
\* Most relation fetches in flight at once.
MaxFetches == 3
\* Most navigations of the page in one session.
MaxNavs == 2
\* Most document loads, and most view fetches, in flight at once.
MaxLoads == 3
\* Most API requests issued in one session.
MaxRequests == 3
\* Most tokens the auth server issues in one session.
MaxTokens == 3

\* The state of a part of the application that is not running.
Idle == [on |-> FALSE]

PageId == 0
NoId == -1
NoPath == <<-1>>
NoSel == <<>>
NoHandler == [name |-> "none", applied |-> <<>>, affected |-> <<>>, result |-> -1, txns |-> 0]

BlockIds == 1..MaxId
DataValues == {0, 1}

VARIABLES
    blocks,        \* document.blocks: block id -> [parent, ty, data, ext]
    childrenMap,   \* document.meta.children_map: block id -> sequence of child ids
    textMap,       \* document.meta.text_map: text id -> number of runs
    slate,         \* editor.children: the editable tree
    nextId,        \* next block id to hand out
    txn,           \* the open transaction: what changed so far
    lastBatch,     \* the event batch of the last finished transaction
    trace,         \* what the last translateYEvents call handled, in order
    threw,         \* whether an exception left the last translateYEvents call
    last,          \* name of the last operation
    opsDone,       \* shared-tree operations performed so far
    selection,     \* editor.selection: [anchor, focus] of points, or NoSel
    handler,       \* what the last command did: handlers applied, blocks affected
    wsData,        \* useWorkspaceData: workspace id, relations cache, fetches in flight
    appPage,       \* AppPage: view id, loaded doc, fallback view, loads in flight
    apiSvc         \* API service: stored token, refresh and requests of the interceptor

docVars == <<blocks, childrenMap, textMap, slate, nextId, txn, lastBatch, trace, threw, last,
             opsDone, selection, handler>>

appVars == <<wsData, appPage, apiSvc>>

vars == <<docVars, appVars>>

cmdVars == <<selection, handler>>

(***************************************************************************)
(* Small helpers                                                           *)
(***************************************************************************)
Min(a, b) == IF a < b THEN a ELSE b
Max(a, b) == IF a > b THEN a ELSE b

Front(s) == SubSeq(s, 1, Len(s) - 1)

\* Array.prototype.findIndex: 0-based index of x in s, -1 when absent.
RECURSIVE FindIndexFrom(_, _, _)
FindIndexFrom(s, x, i) ==
    IF i > Len(s) THEN -1
    ELSE IF s[i] = x THEN i - 1
    ELSE FindIndexFrom(s, x, i + 1)

FindIndex(s, x) == FindIndexFrom(s, x, 1)

\* Array.prototype.splice(idx, 0, x): insert x before 0-based position idx.
SpliceIn(s, idx, x) ==
    LET at == IF idx < 0 THEN Max(Len(s) + idx, 0) ELSE Min(idx, Len(s))
    IN  SubSeq(s, 1, at) \o <<x>> \o SubSeq(s, at + 1, Len(s))

\* Array.prototype.splice(idx, 1): remove the element at 0-based position idx.
SpliceOut(s, idx) == SubSeq(s, 1, idx) \o SubSeq(s, idx + 2, Len(s))

(***************************************************************************)
(* Editable tree nodes                                                     *)
(***************************************************************************)
\* A text run {text: t}.
Leaf(t) == [kind |-> "leaf", blockId |-> NoId, ty |-> "", data |-> 0, text |-> t, children |-> <<>>]

\* The text element {textId, type: 'text', children: runs}.
TextNode(textId, runs) ==
    [kind |-> "text", blockId |-> textId, ty |-> "text", data |-> 0, text |-> "", children |-> runs]

\* A block element {blockId, type, data, children}.
BlockNode(id, ty, data, ch) ==
    [kind |-> "block", blockId |-> id, ty |-> ty, data |-> data, text |-> "", children |-> ch]

\* Editor.hasPath
RECURSIVE HasPath(_, _)
HasPath(chs, path) ==
    IF path = <<>> THEN TRUE
    ELSE /\ Head(path) >= 0
         /\ Head(path) < Len(chs)
         /\ HasPath(chs[Head(path) + 1].children, Tail(path))

\* Node.get
RECURSIVE NodeAt(_, _)
NodeAt(chs, path) ==
    IF Len(path) = 1 THEN chs[Head(path) + 1]
    ELSE NodeAt(chs[Head(path) + 1].children, Tail(path))

ChildrenAt(chs, path) == IF path = <<>> THEN chs ELSE NodeAt(chs, path).children

\* Whether Slate can apply insert_node at path: the parent exists, is not a
\* text run, and the index is not past the end of the parent.
CanInsert(chs, path) ==
    /\ path # <<>>
    /\ HasPath(chs, Front(path))
    /\ (Len(path) > 1 => NodeAt(chs, Front(path)).kind # "leaf")
    /\ path[Len(path)] <= Len(ChildrenAt(chs, Front(path)))

\* insert_node
RECURSIVE InsertNode(_, _, _)
InsertNode(chs, path, n) ==
    IF Len(path) = 1 THEN SpliceIn(chs, Head(path), n)
    ELSE [chs EXCEPT ![Head(path) + 1].children = InsertNode(@, Tail(path), n)]

\* remove_node
RECURSIVE RemoveNode(_, _)
RemoveNode(chs, path) ==
    IF Len(path) = 1 THEN SpliceOut(chs, Head(path))
    ELSE [chs EXCEPT ![Head(path) + 1].children = RemoveNode(@, Tail(path))]

\* set_node with newProperties {data}
RECURSIVE SetNodeData(_, _, _)
SetNodeData(chs, path, d) ==
    IF Len(path) = 1 THEN [chs EXCEPT ![Head(path) + 1].data = d]
    ELSE [chs EXCEPT ![Head(path) + 1].children = SetNodeData(@, Tail(path), d)]

\* Replace the children of the node at path.
RECURSIVE SetChildren(_, _, _)
SetChildren(chs, path, kids) ==
    IF Len(path) = 1 THEN [chs EXCEPT ![Head(path) + 1].children = kids]
    ELSE [chs EXCEPT ![Head(path) + 1].children = SetChildren(@, Tail(path), kids)]

\* editor.nodes({at: [], match: n => n.blockId === id}) first entry: the path
\* of the first block element with that id in document order, or NoPath.
RECURSIVE FindFrom(_, _, _, _)
FindFrom(chs, id, i, prefix) ==
    IF i > Len(chs) THEN NoPath
    ELSE LET n == chs[i]
             here == Append(prefix, i - 1)
         IN  IF n.kind = "block" /\ n.blockId = id THEN here
             ELSE LET below == FindFrom(n.children, id, 1, here)
                  IN  IF below # NoPath THEN below
                      ELSE FindFrom(chs, id, i + 1, prefix)

findSlateEntryByBlockId(chs, id) == FindFrom(chs, id, 1, <<>>)

(***************************************************************************)
(* Shared tree accessors                                                   *)
(***************************************************************************)
\* A shared root is a record [blocks, childrenMap, textMap]; SharedRoot is
\* the one the editor holds (editor.sharedRoot).
SharedRoot == [blocks |-> blocks, childrenMap |-> childrenMap, textMap |-> textMap]

\* getBlock: whether the block map holds the id.
HasBlock(root, id) == id \in DOMAIN root.blocks

\* getText: whether the text map holds the text id.
HasText(root, textId) == textId \in DOMAIN root.textMap

\* getChildrenArray(parent.get(block_children)).toArray()
getChildrenArray(root, id) ==
    IF id \in DOMAIN root.childrenMap THEN root.childrenMap[id] ELSE <<>>

(***************************************************************************)
(* Tree translator                                                         *)
(***************************************************************************)
\* One entry of the translation log: the key handled, its action, what happened.
Handled(key, action, outcome) == [key |-> key, action |-> action, outcome |-> outcome]

\* State threaded through one translateYEvents call.
\*   root    editor.sharedRoot
\*   ed      the editable tree
\*   keyPath the same-batch path cache of applyBlocksYEvent
\*   log     the items handled so far
\*   threw   an exception has escaped a handler
Skip(st, key, action, outcome) ==
    [st EXCEPT !.log = Append(@, Handled(key, action, outcome))]

\* yText.toDelta().flatMap(deltaInsertToSlateNode), with the empty-run case.
SlateDelta(root, textId) ==
    IF root.textMap[textId] = 0 THEN <<Leaf("")>>
    ELSE [i \in 1..root.textMap[textId] |-> Leaf("x")]

\* The children handleNewBlock gives to the node it inserts.
NewBlockChildren(root, block) ==
    IF HasText(root, block.ext) THEN <<TextNode(block.ext, SlateDelta(root, block.ext))>> ELSE <<>>

\* parentHasTextNode of handleNewBlock
ParentHasTextNode(siblings) ==
    IF Len(siblings) = 0 THEN TRUE ELSE siblings[1].kind = "text"

\* The insertion path handleNewBlock computes, or NoPath when the parent is
\* neither in the editable tree nor in the cache.
NewBlockPath(st, block, index) ==
    IF block.parent # PageId
    THEN LET parentPath == findSlateEntryByBlockId(st.ed, block.parent)
         IN  IF parentPath = NoPath
             THEN IF block.parent \in DOMAIN st.keyPath
                  THEN Append(st.keyPath[block.parent], index + 1)
                  ELSE NoPath
             ELSE LET silblings == NodeAt(st.ed, parentPath).children
                      childrenLength == Len(silblings)
                  IN  Append(parentPath,
                             Min(index + (IF ParentHasTextNode(silblings) THEN 1 ELSE 0),
                                 childrenLength))
    ELSE <<index>>

\* The insertion without its try/catch: a failed insert_node escapes.
InsertGuarded_mut(st, key, path, node) ==
    IF CanInsert(st.ed, path)
    THEN [st EXCEPT !.ed = InsertNode(@, path, node),
                    !.keyPath = [k \in DOMAIN @ \cup {key} |-> IF k = key THEN path ELSE @[k]],
                    !.log = Append(@, Handled(key, "add", "inserted"))]
    ELSE [st EXCEPT !.threw = TRUE]

\* try { editor.apply(insert_node); keyPath[key] = path } catch { log }
InsertGuarded(st, key, path, node) ==
    IF CanInsert(st.ed, path)
    THEN [st EXCEPT !.ed = InsertNode(@, path, node),
                    !.keyPath = [k \in DOMAIN @ \cup {key} |-> IF k = key THEN path ELSE @[k]],
                    !.log = Append(@, Handled(key, "add", "inserted"))]
    ELSE Skip(st, key, "add", "insert_failed")

\* Whether the path of the new block comes from the same-batch cache: the
\* parent has no node and a path was cached for it.
UsesCachedPath(st, block) ==
    /\ block.parent # PageId
    /\ findSlateEntryByBlockId(st.ed, block.parent) = NoPath
    /\ block.parent \in DOMAIN st.keyPath

\* A new block without a parent node and without a cached parent path goes
\* to the top level.
handleNewBlock_mut(st, key) ==
    IF ~HasBlock(st.root, key) THEN Skip(st, key, "add", "no_block")
    ELSE LET block == st.root.blocks[key]
         IN  IF ~HasBlock(st.root, block.parent) THEN Skip(st, key, "add", "no_parent")
             ELSE LET index == FindIndex(getChildrenArray(st.root, block.parent), key)
                      path == NewBlockPath(st, block, index)
                      node == BlockNode(key, block.ty, block.data,
                                        NewBlockChildren(st.root, block))
                  IN  IF path = NoPath THEN InsertGuarded(st, key, <<0>>, node)
                      ELSE InsertGuarded(st, key, path, node)

handleNewBlock(st, key) ==
    IF ~HasBlock(st.root, key) THEN Skip(st, key, "add", "no_block")
    ELSE LET block == st.root.blocks[key]
         IN  IF ~HasBlock(st.root, block.parent) THEN Skip(st, key, "add", "no_parent")
             ELSE LET index == FindIndex(getChildrenArray(st.root, block.parent), key)
                      path == NewBlockPath(st, block, index)
                      node == BlockNode(key, block.ty, block.data,
                                        NewBlockChildren(st.root, block))
                  IN  IF path = NoPath THEN Skip(st, key, "add", "no_parent_node")
                      ELSE InsertGuarded([st EXCEPT !.cached = IF UsesCachedPath(st, block)
                                                                THEN @ \cup {key} ELSE @],
                                         key, path, node)

\* A deletion that keeps the block children of the removed node, putting
\* them in its place.
handleDeleteNode_mut(st, key) ==
    LET path == findSlateEntryByBlockId(st.ed, key)
    IN  IF path = NoPath THEN Skip(st, key, "delete", "not_found")
        ELSE LET kids == SelectSeq(NodeAt(st.ed, path).children, LAMBDA n : n.kind = "block")
                 RECURSIVE PutBack(_, _)
                 PutBack(ed, i) ==
                     IF i = 0 THEN ed
                     ELSE PutBack(InsertNode(ed, path, kids[i]), i - 1)
             IN  [st EXCEPT !.ed = PutBack(RemoveNode(@, path), Len(kids)),
                            !.log = Append(@, Handled(key, "delete", "removed"))]

handleDeleteNode(st, key) ==
    LET path == findSlateEntryByBlockId(st.ed, key)
    IN  IF path = NoPath THEN Skip(st, key, "delete", "not_found")
        ELSE [st EXCEPT !.ed = RemoveNode(@, path),
                        !.log = Append(@, Handled(key, "delete", "removed"))]

\* An 'update' branch that refreshes the node's data from the block.
handleUpdateKey_mut(st, key) ==
    LET path == findSlateEntryByBlockId(st.ed, key)
    IN  IF path = NoPath \/ ~HasBlock(st.root, key) THEN Skip(st, key, "update", "nothing")
        ELSE [st EXCEPT !.ed = SetNodeData(@, path, st.root.blocks[key].data),
                        !.log = Append(@, Handled(key, "update", "set"))]

\* The 'update' branch of applyBlocksYEvent: nothing is done.
handleUpdateKey(st, key) == Skip(st, key, "update", "nothing")

\* A comparator that ranks add before delete.
SortCompare_mut(a, b) ==
    IF a.action = "add" /\ b.action # "add" THEN -1
    ELSE IF a.action # "add" /\ b.action = "add" THEN 1
    ELSE 0

\* Comparator of updates.sort: delete first, then add/update.
SortCompare(a, b) ==
    IF a.action = "delete" /\ b.action # "delete" THEN -1
    ELSE IF a.action # "delete" /\ b.action = "delete" THEN 1
    ELSE 0

\* Array.prototype.sort is stable: insertion by the comparator.
RECURSIVE SortInsert(_, _)
SortInsert(s, x) ==
    IF s = <<>> THEN <<x>>
    ELSE IF SortCompare(s[Len(s)], x) > 0
         THEN Append(SortInsert(Front(s), x), s[Len(s)])
         ELSE Append(s, x)

RECURSIVE SortUpdates(_)
SortUpdates(s) ==
    IF s = <<>> THEN <<>> ELSE SortInsert(SortUpdates(Front(s)), s[Len(s)])

\* keysChanged.forEach: keys without an entry in changes.keys are dropped.
CollectUpdates(keys) == SelectSeq(keys, LAMBDA u : u.action # "none")

HandleUpdate(st, u) ==
    IF u.action = "add" THEN handleNewBlock(st, u.key)
    ELSE IF u.action = "delete" THEN handleDeleteNode(st, u.key)
    ELSE IF u.action = "update" THEN handleUpdateKey(st, u.key)
    ELSE st

\* updates.forEach: stops only if an exception escapes a handler.
RECURSIVE ForEachUpdate(_, _)
ForEachUpdate(st, us) ==
    IF us = <<>> \/ st.threw THEN st
    ELSE ForEachUpdate(HandleUpdate(st, Head(us)), Tail(us))

applyBlocksYEvent(st, event) ==
    LET done == ForEachUpdate([st EXCEPT !.keyPath = <<>>],
                              SortUpdates(CollectUpdates(event.keys)))
    IN  [done EXCEPT !.keyPath = <<>>]

\* applyUpdateBlockYEvent as a node replacement
applyUpdateBlockYEvent_mut(st, event) ==
    LET path == findSlateEntryByBlockId(st.ed, event.id)
    IN  IF path = NoPath THEN Skip(st, event.id, "field", "not_found")
        ELSE [st EXCEPT !.ed = SetChildren(SetNodeData(@, path, st.root.blocks[event.id].data), path, <<>>),
                        !.log = Append(@, Handled(event.id, "field", "set"))]

applyUpdateBlockYEvent(st, event) ==
    LET path == findSlateEntryByBlockId(st.ed, event.id)
    IN  IF path = NoPath THEN Skip(st, event.id, "field", "not_found")
        ELSE [st EXCEPT !.ed = SetNodeData(@, path, st.root.blocks[event.id].data),
                        !.log = Append(@, Handled(event.id, "field", "set"))]

\* The path of the text element with the given textId, or NoPath.
RECURSIVE FindTextFrom(_, _, _, _)
FindTextFrom(chs, textId, i, prefix) ==
    IF i > Len(chs) THEN NoPath
    ELSE LET n == chs[i]
             here == Append(prefix, i - 1)
         IN  IF n.kind = "text" /\ n.blockId = textId THEN here
             ELSE LET below == FindTextFrom(n.children, textId, 1, here)
                  IN  IF below # NoPath THEN below
                      ELSE FindTextFrom(chs, textId, i + 1, prefix)

\* Text content change: the runs of the text element follow the Text entity.
applyTextYEvent(st, event) ==
    LET path == FindTextFrom(st.ed, event.id, 1, <<>>)
    IN  IF path = NoPath \/ ~HasText(st.root, event.id) THEN Skip(st, event.id, "text", "not_found")
        ELSE [st EXCEPT !.ed = SetChildren(@, path, SlateDelta(st.root, event.id)),
                        !.log = Append(@, Handled(event.id, "text", "set"))]

HandleEvent(st, event) ==
    IF event.kind = "blocks" THEN applyBlocksYEvent(st, event)
    ELSE IF event.kind = "block" THEN applyUpdateBlockYEvent(st, event)
    ELSE IF event.kind = "text" THEN applyTextYEvent(st, event)
    ELSE st

\* events.forEach
RECURSIVE ForEachEvent(_, _)
ForEachEvent(st, events) ==
    IF events = <<>> \/ st.threw THEN st
    ELSE ForEachEvent(HandleEvent(st, Head(events)), Tail(events))

translateYEvents(root, ed, events) ==
    ForEachEvent([root |-> root, ed |-> ed, keyPath |-> <<>>, log |-> <<>>, threw |-> FALSE,
                  cached |-> {}],
                 events)

(***************************************************************************)
(* From-scratch translation of the shared tree                             *)
(***************************************************************************)
RECURSIVE ScratchNode(_, _)
ScratchNode(root, id) ==
    LET block == root.blocks[id]
        kids == getChildrenArray(root, id)
        present == SelectSeq(kids, LAMBDA k : HasBlock(root, k))
    IN  BlockNode(id, block.ty, block.data,
                  NewBlockChildren(root, block)
                  \o [i \in 1..Len(present) |-> ScratchNode(root, present[i])])

ScratchChildren(root) == ScratchNode(root, PageId).children

(***************************************************************************)
(* Shared tree operations                                                  *)
(***************************************************************************)
\* keysChanged is a Set: a key keeps the position of its first change.
Touch(keys, k) == IF \E i \in 1..Len(keys) : keys[i] = k THEN keys ELSE Append(keys, k)

\* The transaction record: the block map keys and the children arrays at
\* its start, the changed block map keys and the blocks whose own fields
\* changed, both in order of first change.  A closed record describes the
\* last finished transaction.
Opened == IF txn.open THEN txn
          ELSE [open |-> TRUE, pre |-> DOMAIN blocks, preChildren |-> childrenMap,
                keys |-> <<>>, fields |-> <<>>, texts |-> <<>>]

NoTxn == [open |-> FALSE, pre |-> {}, preChildren |-> <<>>, keys |-> <<>>, fields |-> <<>>,
          texts |-> <<>>]

\* Bookkeeping shared by the transaction steps: the step counts as one
\* operation, and the log of the previous batch is dropped when a new
\* transaction opens.
Step(name) ==
    /\ opsDone' = opsDone + 1
    /\ last' = name
    /\ lastBatch' = IF txn.open THEN lastBatch ELSE <<>>
    /\ trace' = IF txn.open THEN trace ELSE <<>>
    /\ threw' = IF txn.open THEN threw ELSE FALSE
    /\ UNCHANGED <<cmdVars, appVars>>

TextKinds == {"none", "missing", "empty", "runs"}

\* A block and all its descendants, the block first.
RECURSIVE Subtree(_, _)
RECURSIVE SubtreeAll(_, _)
Subtree(root, id) == <<id>> \o SubtreeAll(root, getChildrenArray(root, id))
SubtreeAll(root, ids) ==
    IF ids = <<>> THEN <<>> ELSE Subtree(root, Head(ids)) \o SubtreeAll(root, Tail(ids))

SeqRange(s) == {s[i] : i \in 1..Len(s)}

RECURSIVE TouchAll(_, _)
TouchAll(keys, ks) == IF ks = <<>> THEN keys ELSE TouchAll(Touch(keys, Head(ks)), Tail(ks))

\* Restrict a function to a subset of its domain.
Restrict(f, S) == [x \in S |-> f[x]]

\* Extend or overwrite a function at one point.
Put(f, k, v) == [x \in DOMAIN f \cup {k} |-> IF x = k THEN v ELSE f[x]]

\* Insert transaction step: a new block under parent at index.
OpInsertBlock(parent, index, ty, kind) ==
    /\ nextId <= MaxId
    /\ parent \in DOMAIN blocks
    /\ index \in 0..Len(getChildrenArray(SharedRoot, parent))
    /\ LET id == nextId
           ext == IF kind = "none" THEN NoId ELSE id
       IN  /\ blocks' = Put(blocks, id, [parent |-> parent, ty |-> ty, data |-> 0, ext |-> ext])
           /\ childrenMap' = Put(Put(childrenMap, parent, SpliceIn(getChildrenArray(SharedRoot, parent), index, id)),
                                 id, <<>>)
           /\ textMap' = IF kind = "empty" THEN Put(textMap, id, 0)
                         ELSE IF kind = "runs" THEN Put(textMap, id, 1)
                         ELSE textMap
           /\ nextId' = id + 1
           /\ txn' = [Opened EXCEPT !.keys = Touch(@, id)]
    /\ Step("insert")
    /\ UNCHANGED slate

\* Delete transaction step: the block and its descendants leave the store.
OpDeleteBlock(id) ==
    /\ id \in DOMAIN blocks
    /\ id # PageId
    /\ LET gone == Subtree(SharedRoot, id)
           keep == DOMAIN blocks \ SeqRange(gone)
           parent == blocks[id].parent
       IN  /\ blocks' = Restrict(blocks, keep)
           /\ childrenMap' = [k \in DOMAIN childrenMap \ SeqRange(gone) |->
                                IF k = parent
                                THEN SelectSeq(childrenMap[k], LAMBDA c : c # id)
                                ELSE childrenMap[k]]
           /\ textMap' = Restrict(textMap, DOMAIN textMap \ SeqRange(gone))
           /\ txn' = [Opened EXCEPT !.keys = TouchAll(@, gone)]
    /\ Step("delete")
    /\ UNCHANGED <<slate, nextId>>

\* Delete transaction step that only detaches: the block leaves the store
\* and its parent's child order, its descendants stay in the block map
\* without a path to the page.
OpDetachBlock(id) ==
    /\ id \in DOMAIN blocks
    /\ id # PageId
    /\ getChildrenArray(SharedRoot, id) # <<>>
    /\ LET keep == DOMAIN blocks \ {id}
           parent == blocks[id].parent
       IN  /\ blocks' = Restrict(blocks, keep)
           /\ childrenMap' = [k \in DOMAIN childrenMap \ {id} |->
                                IF k = parent
                                THEN SelectSeq(childrenMap[k], LAMBDA c : c # id)
                                ELSE childrenMap[k]]
           /\ textMap' = Restrict(textMap, DOMAIN textMap \ {id})
           /\ txn' = [Opened EXCEPT !.keys = Touch(@, id)]
    /\ Step("detach")
    /\ UNCHANGED <<slate, nextId>>

\* Field update step: block.set(block_data, d).
OpSetBlockData(id, d) ==
    /\ id \in DOMAIN blocks
    /\ id # PageId
    /\ blocks[id].data # d
    /\ blocks' = [blocks EXCEPT ![id].data = d]
    /\ txn' = [Opened EXCEPT !.fields = Touch(@, id)]
    /\ Step("setdata")
    /\ UNCHANGED <<childrenMap, textMap, slate, nextId>>

\* Record replacement step: blocks.set(id, record) for a key the map holds.
OpSetBlock(id, d) ==
    /\ id \in DOMAIN blocks
    /\ id # PageId
    /\ blocks[id].data # d
    /\ blocks' = [blocks EXCEPT ![id].data = d]
    /\ txn' = [Opened EXCEPT !.keys = Touch(@, id)]
    /\ Step("setblock")
    /\ UNCHANGED <<childrenMap, textMap, slate, nextId>>

\* YMapEvent.changes.keys: the action of a changed key of the block map.
KeyAction(root, pre, k) ==
    IF k \in pre
    THEN IF HasBlock(root, k) THEN "update" ELSE "delete"
    ELSE IF HasBlock(root, k) THEN "add" ELSE "none"

\* The batch an observer of the document receives when the transaction ends:
\* events ordered by path length, the block map first.  A block record has
\* an event of its own only if it existed before the transaction and is
\* still the record the map holds.
EventBatch(root, t) ==
    LET fields == SelectSeq(t.fields,
                            LAMBDA f : f \in t.pre /\ HasBlock(root, f) /\ f \notin SeqRange(t.keys))
        texts == SelectSeq(t.texts, LAMBDA x : x \in t.pre /\ HasText(root, x))
    IN  (IF t.keys = <<>> THEN <<>>
         ELSE <<[kind |-> "blocks", id |-> NoId,
                 keys |-> [i \in 1..Len(t.keys) |->
                             [key |-> t.keys[i], action |-> KeyAction(root, t.pre, t.keys[i])]]]>>)
        \o [i \in 1..Len(fields) |-> [kind |-> "block", id |-> fields[i], keys |-> <<>>]]
        \o [i \in 1..Len(texts) |-> [kind |-> "text", id |-> texts[i], keys |-> <<>>]]

\* The transaction ends and the observer translates its batch.
Commit ==
    /\ txn.open
    /\ LET batch == EventBatch(SharedRoot, txn)
           done == translateYEvents(SharedRoot, slate, batch)
       IN  /\ slate' = done.ed
           /\ trace' = done.log
           /\ threw' = done.threw
           /\ lastBatch' = batch
    /\ txn' = [txn EXCEPT !.open = FALSE]
    /\ last' = "commit"
    /\ UNCHANGED <<blocks, childrenMap, textMap, nextId, opsDone, cmdVars, appVars>>

\* The observer is handed the batch it has already applied.
Retranslate ==
    /\ ~txn.open
    /\ last = "commit"
    /\ LET done == translateYEvents(SharedRoot, slate, lastBatch)
       IN  /\ slate' = done.ed
           /\ trace' = done.log
           /\ threw' = done.threw
    /\ last' = "retranslate"
    /\ UNCHANGED <<blocks, childrenMap, textMap, nextId, txn, lastBatch, opsDone, cmdVars, appVars>>

(***************************************************************************)
(* Transactions of the command layer                                       *)
(*                                                                         *)
(* A command runs its shared-tree mutations on a transaction record and    *)
(* executeOperations ends the transaction: the observer translates the     *)
(* batch into the editable tree before the command goes on.                *)
(***************************************************************************)
\* A world is what a command reads and writes: [root, ed, nextId].
World == [root |-> SharedRoot, ed |-> slate, nextId |-> nextId]

Begin(w) ==
    [open |-> TRUE, root |-> w.root, nextId |-> w.nextId, pre |-> DOMAIN w.root.blocks,
     preChildren |-> w.root.childrenMap, keys |-> <<>>, fields |-> <<>>, texts |-> <<>>,
     result |-> NoId]

\* A new block record under parent at index, with a Text entity of the given
\* number of runs (-1: no Text entity).
TxPut(t, id, rec, index, runs) ==
    [t EXCEPT !.root.blocks = Put(@, id, rec),
              !.root.childrenMap =
                  Put(Put(@, rec.parent, SpliceIn(getChildrenArray(t.root, rec.parent), index, id)),
                      id, <<>>),
              !.root.textMap = IF runs >= 0 THEN Put(@, id, runs) ELSE @,
              !.nextId = IF id >= @ THEN id + 1 ELSE @,
              !.keys = Touch(@, id)]

\* deleteBlock of the store: the block and its descendants leave the maps.
TxDelete(t, id) ==
    LET gone == Subtree(t.root, id)
        parent == t.root.blocks[id].parent
    IN  [t EXCEPT !.root.blocks = Restrict(@, DOMAIN @ \ SeqRange(gone)),
                  !.root.childrenMap =
                      [k \in DOMAIN @ \ SeqRange(gone) |->
                          IF k = parent THEN SelectSeq(@[k], LAMBDA c : c # id) ELSE @[k]],
                  !.root.textMap = Restrict(@, DOMAIN @ \ SeqRange(gone)),
                  !.keys = TouchAll(@, gone)]

\* deepCopyBlock followed by updateBlockParent: a copy of the block, its
\* text and its descendants, with new ids, under parent at index.  The
\* copy is of type ty.
RECURSIVE TxCopy(_, _, _, _, _)
RECURSIVE TxCopyKids(_, _, _, _)
TxCopy(t, source, parent, index, ty) ==
    LET id == t.nextId
        b == t.root.blocks[source]
        runs == IF HasText(t.root, b.ext) THEN t.root.textMap[b.ext] ELSE -1
        rec == [parent |-> parent, ty |-> ty, data |-> b.data,
                ext |-> IF b.ext = NoId THEN NoId ELSE id]
    IN  TxCopyKids(TxPut(t, id, rec, index, runs), getChildrenArray(t.root, source), id, 0)
TxCopyKids(t, kids, parent, i) ==
    IF kids = <<>> THEN t
    ELSE TxCopyKids(TxCopy(t, Head(kids), parent, i, t.root.blocks[Head(kids)].ty),
                    Tail(kids), parent, i + 1)

\* Whether the ids left suffice to copy the block and its descendants.
CanCopy(w, id) == w.nextId + Len(Subtree(w.root, id)) - 1 <= MaxCmdId

\* liftBlock: the block moves behind its parent, offset places further, as
\* a copy with new ids.  Nothing happens for a child of the page.
liftBlock(t, id, offset) ==
    LET parent == t.root.blocks[id].parent
    IN  IF ~HasBlock(t.root, parent) \/ parent = PageId THEN [t EXCEPT !.result = NoId]
        ELSE LET grand == t.root.blocks[parent].parent
                 index == FindIndex(getChildrenArray(t.root, grand), parent) + 1 + offset
                 copied == TxCopy(t, id, grand, index, t.root.blocks[id].ty)
             IN  [TxDelete(copied, id) EXCEPT !.result = t.nextId]

\* getPreviousSiblingBlock
getPreviousSiblingBlock(root, id) ==
    LET sibs == getChildrenArray(root, root.blocks[id].parent)
        index == FindIndex(sibs, id)
    IN  IF index <= 0 THEN NoId ELSE sibs[index]

\* indentBlock: the block becomes the last child of its previous sibling,
\* as a copy with new ids.  Nothing happens for a first child.
indentBlock(t, id) ==
    LET prev == getPreviousSiblingBlock(t.root, id)
    IN  IF prev = NoId THEN [t EXCEPT !.result = NoId]
        ELSE LET copied == TxCopy(t, id, prev, Len(getChildrenArray(t.root, prev)),
                                  t.root.blocks[id].ty)
             IN  [TxDelete(copied, id) EXCEPT !.result = t.nextId]

\* turnToBlock of the store: the block is replaced by a copy of type ty
\* with the given data.
turnToBlock(t, id, ty, data) ==
    LET parent == t.root.blocks[id].parent
        index == FindIndex(getChildrenArray(t.root, parent), id)
        copied == TxCopy(t, id, parent, index, ty)
    IN  [TxDelete(copied, id) EXCEPT !.result = t.nextId,
                                     !.root.blocks[t.nextId].data = data]

\* executeOperations: the transaction ends and the observer translates its
\* batch.
executeOperations(w, t) ==
    LET batch == EventBatch(t.root, t)
        done == translateYEvents(t.root, w.ed, batch)
    IN  [root |-> t.root, ed |-> done.ed, nextId |-> t.nextId]

(***************************************************************************)
(* Points and selections                                                   *)
(***************************************************************************)
NoPoint == [path |-> NoPath, offset |-> 0]

TextLen(n) == IF n.text = "" THEN 0 ELSE 1

\* A point is renderable: its path is a text run and its offset is in it.
ValidPoint(ed, pt) ==
    /\ pt.path # NoPath
    /\ HasPath(ed, pt.path)
    /\ pt.path # <<>>
    /\ NodeAt(ed, pt.path).kind = "leaf"
    /\ pt.offset >= 0
    /\ pt.offset <= TextLen(NodeAt(ed, pt.path))

isValidSelection(ed, sel) ==
    sel # NoSel /\ ValidPoint(ed, sel.anchor) /\ ValidPoint(ed, sel.focus)

\* The paths of all text runs, in document order.
RECURSIVE LeafPathsFrom(_, _, _)
LeafPathsFrom(chs, prefix, i) ==
    IF i > Len(chs) THEN <<>>
    ELSE (IF chs[i].kind = "leaf" THEN <<Append(prefix, i - 1)>>
          ELSE LeafPathsFrom(chs[i].children, Append(prefix, i - 1), 1))
         \o LeafPathsFrom(chs, prefix, i + 1)

LeafPaths(chs, prefix) == LeafPathsFrom(chs, prefix, 1)

\* Path.compare(p, q) <= 0 in document order.
RECURSIVE PathLE(_, _)
PathLE(p, q) ==
    IF p = <<>> THEN TRUE
    ELSE IF q = <<>> THEN FALSE
    ELSE IF Head(p) < Head(q) THEN TRUE
    ELSE IF Head(p) > Head(q) THEN FALSE
    ELSE PathLE(Tail(p), Tail(q))

\* findNearestValidSelection: the candidate when it is valid, else a cursor
\* at the first text run at or after the candidate's anchor, else at the
\* last text run; NoSel when the tree has no text run.
findNearestValidSelection(ed, candidate) ==
    IF isValidSelection(ed, candidate) THEN candidate
    ELSE LET leaves == LeafPaths(ed, <<>>)
             from == IF candidate = NoSel THEN <<>> ELSE candidate.anchor.path
             after == SelectSeq(leaves, LAMBDA l : PathLE(from, l))
             at == IF after # <<>> THEN after[1] ELSE leaves[Len(leaves)]
         IN  IF leaves = <<>> THEN NoSel
             ELSE [anchor |-> [path |-> at, offset |-> 0], focus |-> [path |-> at, offset |-> 0]]

\* Editor.start(editor, path): the start of the first text run at or below
\* path; NoPoint when Slate throws for want of a text run.
RECURSIVE FirstLeaf(_, _)
FirstLeaf(ed, path) ==
    IF ~HasPath(ed, path) \/ path = <<>> THEN NoPath
    ELSE LET n == NodeAt(ed, path)
         IN  IF n.kind = "leaf" THEN path
             ELSE IF n.children = <<>> THEN NoPath
             ELSE FirstLeaf(ed, Append(path, 0))

EditorStart(ed, path) ==
    LET l == FirstLeaf(ed, path)
    IN  IF l = NoPath THEN NoPoint ELSE [path |-> l, offset |-> 0]

Collapsed(pt) == [anchor |-> pt, focus |-> pt]

\* getBlockEntry(editor, point): the path of the closest block element
\* above the point, or NoPath.
RECURSIVE BlockAbove(_, _)
BlockAbove(ed, path) ==
    IF path = <<>> THEN NoPath
    ELSE IF HasPath(ed, path) /\ NodeAt(ed, path).kind = "block" THEN path
    ELSE BlockAbove(ed, Front(path))

\* editor.edges(selection): the points of the selection in document order.
Edges(sel) ==
    IF \/ PathLE(sel.anchor.path, sel.focus.path) /\ sel.anchor.path # sel.focus.path
       \/ sel.anchor.path = sel.focus.path /\ sel.anchor.offset <= sel.focus.offset
    THEN <<sel.anchor, sel.focus>>
    ELSE <<sel.focus, sel.anchor>>

(***************************************************************************)
(* deleteBlockBackward                                                     *)
(***************************************************************************)
LIST_BLOCK_TYPES == {"bulleted_list", "numbered_list", "todo_list"}

\* The outcome of a command: the world, the selection and the record of
\* what was applied.
Outcome(w, sel, name, applied, affected, result, txns) ==
    [w |-> w, sel |-> sel,
     handler |-> [name |-> name, applied |-> applied, affected |-> affected,
                  result |-> result, txns |-> txns]]

\* Select the start of the block with the given id when it can be found.
SelectStartOf(ed, id, sel) ==
    LET path == findSlateEntryByBlockId(ed, id)
        pt == IF path = NoPath THEN NoPoint ELSE EditorStart(ed, path)
    IN  IF pt = NoPoint THEN sel ELSE Collapsed(pt)

\* The lift handler reports success for a block whose parent is not the page.
CanLift(root, id) ==
    LET parent == root.blocks[id].parent
    IN  HasBlock(root, parent) /\ parent # PageId

\* The transaction of the lift handler.
handleLiftBlockOnBackspaceAndEnterWithTxn(w, id) == liftBlock(Begin(w), id, 0)

\* The transaction of the conversion handler: the block becomes a paragraph.
handleNonParagraphBlockBackspaceAndEnterWithTxn(w, id) ==
    turnToBlock(Begin(w), id, "paragraph", w.root.blocks[id].data)

\* The block before a block in document order: the deepest last descendant
\* of its previous sibling, else its parent; NoId before the first block.
RECURSIVE LastDescendant(_, _)
LastDescendant(root, id) ==
    LET kids == getChildrenArray(root, id)
    IN  IF kids = <<>> THEN id ELSE LastDescendant(root, kids[Len(kids)])

PrecedingBlock(root, id) ==
    LET prev == getPreviousSiblingBlock(root, id)
        parent == root.blocks[id].parent
    IN  IF prev # NoId THEN LastDescendant(root, prev)
        ELSE IF parent = PageId THEN NoId
        ELSE parent

\* The transaction of the merge handler: the text of the block joins the
\* text of the preceding block and the block is removed.
MergeInto(t, id, into, own) ==
    LET runs == t.root.textMap[into] + (IF HasText(t.root, own) THEN t.root.textMap[own] ELSE 0)
    IN  TxDelete([t EXCEPT !.root.textMap = Put(@, into, runs), !.texts = Touch(@, into)], id)

handleMergeBlockBackwardWithTxn(w, id) ==
    LET prev == PrecedingBlock(w.root, id)
        into == IF prev = NoId THEN NoId ELSE w.root.blocks[prev].ext
    IN  IF prev = NoId \/ ~HasText(w.root, into) THEN Begin(w)
        ELSE MergeInto(Begin(w), id, into, w.root.blocks[id].ext)

\* The handler deleteBlockBackward chooses at a collapsed cursor.
deleteBlockBackwardHandler_mut(blockType, parentType, depth, liftOk) ==
    IF blockType # "paragraph" /\ parentType = "quote" /\ blockType \in LIST_BLOCK_TYPES
    THEN "specialConversion"
    ELSE IF blockType # "paragraph" THEN "typeConversion"
    ELSE IF depth > 1 /\ liftOk THEN "lift"
    ELSE "merge"

deleteBlockBackwardHandler(blockType, parentType, depth, liftOk) ==
    IF blockType # "paragraph" /\ parentType = "quote" /\ blockType \in LIST_BLOCK_TYPES
    THEN "specialConversion"
    ELSE IF depth > 1 /\ liftOk THEN "lift"
    ELSE IF blockType # "paragraph" THEN "typeConversion"
    ELSE "merge"

\* Whether the ids left suffice for what the chosen handler copies.
CanDeleteBackward(w, sel) ==
    LET path == BlockAbove(w.ed, sel.anchor.path)
    IN  path # NoPath /\ HasBlock(w.root, NodeAt(w.ed, path).blockId)
        => CanCopy(w, NodeAt(w.ed, path).blockId)

ParentType(root, id) ==
    IF HasBlock(root, root.blocks[id].parent) THEN root.blocks[root.blocks[id].parent].ty ELSE "none"

\* The handler chosen for the block at path.
ChosenHandler(w, id, path) ==
    deleteBlockBackwardHandler(w.root.blocks[id].ty, ParentType(w.root, id), Len(path),
                               CanLift(w.root, id))

\* The transaction of the chosen handler.
HandlerTxn(w, id, chosen) ==
    IF chosen = "lift" THEN handleLiftBlockOnBackspaceAndEnterWithTxn(w, id)
    ELSE IF chosen = "merge" THEN handleMergeBlockBackwardWithTxn(w, id)
    ELSE handleNonParagraphBlockBackspaceAndEnterWithTxn(w, id)

\* The cursor goes to the start of the block the handler leaves behind.
DeleteBackwardDone(after, sel, chosen, id, result, txns) ==
    Outcome(after, findNearestValidSelection(after.ed, SelectStartOf(after.ed, result, sel)),
            "deleteBlockBackward", <<chosen>>, <<id>>, result, txns)

DeleteBackwardWith(w, sel, id, chosen, t) ==
    DeleteBackwardDone(executeOperations(w, t), sel, chosen, id,
                       IF chosen = "merge" THEN PrecedingBlock(w.root, id) ELSE w.nextId,
                       IF t.keys = <<>> /\ t.texts = <<>> THEN 0 ELSE 1)

DeleteBackwardAt(w, sel, id, chosen) ==
    DeleteBackwardWith(w, sel, id, chosen, HandlerTxn(w, id, chosen))

DeleteBackwardIn(w, sel, path, id) ==
    IF ~HasBlock(w.root, id) THEN Outcome(w, sel, "deleteBlockBackward", <<>>, <<id>>, NoId, 0)
    ELSE DeleteBackwardAt(w, sel, id, ChosenHandler(w, id, path))

DeleteBackwardFrom(w, sel, path) ==
    IF path = NoPath THEN Outcome(w, sel, "deleteBlockBackward", <<>>, <<>>, NoId, 0)
    ELSE DeleteBackwardIn(w, sel, path, NodeAt(w.ed, path).blockId)

deleteBlockBackward(w, sel) == DeleteBackwardFrom(w, sel, BlockAbove(w.ed, sel.anchor.path))

(***************************************************************************)
(* tabEvent                                                                *)
(***************************************************************************)
\* The paths of all block elements, in document order.
RECURSIVE BlockPathsFrom(_, _, _)
BlockPathsFrom(chs, prefix, i) ==
    IF i > Len(chs) THEN <<>>
    ELSE (IF chs[i].kind = "block"
          THEN <<Append(prefix, i - 1)>>
               \o BlockPathsFrom(chs[i].children, Append(prefix, i - 1), 1)
          ELSE <<>>)
         \o BlockPathsFrom(chs, prefix, i + 1)

BlockPaths(chs, prefix) == BlockPathsFrom(chs, prefix, 1)

\* getAffectedBlocks: the block of the selection start, the block of the
\* selection end and the blocks between them in document order.
getAffectedBlocks(ed, sel) ==
    LET edges == Edges(sel)
        startPath == BlockAbove(ed, edges[1].path)
        endPath == BlockAbove(ed, edges[2].path)
        between == SelectSeq(BlockPaths(ed, <<>>),
                             LAMBDA p : /\ p # startPath /\ p # endPath
                                        /\ PathLE(startPath, p) /\ PathLE(p, endPath))
    IN  [startBlock |-> startPath, middleBlocks |-> between, endBlock |-> endPath]

\* preventIndentNode: the block has no previous sibling block.
preventIndentNode(ed, id) ==
    LET path == findSlateEntryByBlockId(ed, id)
    IN  \/ path = NoPath
        \/ path[Len(path)] = 0
        \/ NodeAt(ed, Append(Front(path), path[Len(path)] - 1)).kind # "block"

\* preventLiftNode: the block is a child of the page.
preventLiftNode(ed, id) ==
    LET path == findSlateEntryByBlockId(ed, id)
    IN  path = NoPath \/ Len(path) = 1

\* Editor.string(editor, path).length
RECURSIVE StringLen(_)
RECURSIVE StringLenFrom(_, _)
StringLen(n) == IF n.kind = "leaf" THEN TextLen(n) ELSE StringLenFrom(n.children, 1)
StringLenFrom(chs, i) ==
    IF i > Len(chs) THEN 0 ELSE StringLen(chs[i]) + StringLenFrom(chs, i + 1)

\* The selection recombined from the new block paths and the sub-paths and
\* offsets captured before the mutation; NoSel when a path is missing.
CalculatedSelection_mut(ed, newStart, newEnd, startAt, endAt) ==
    LET newStartPath == newStart \o startAt.path
        newEndPath == newStart \o endAt.path
    IN  IF HasPath(ed, newStartPath) /\ HasPath(ed, newEndPath)
           /\ newStartPath # <<>> /\ newEndPath # <<>>
        THEN [anchor |-> [path |-> newStartPath,
                          offset |-> Max(0, Min(startAt.offset, StringLen(NodeAt(ed, newStartPath))))],
              focus |-> [path |-> newEndPath,
                         offset |-> Max(0, Min(endAt.offset, StringLen(NodeAt(ed, newEndPath))))]]
        ELSE NoSel

CalculatedSelection(ed, newStart, newEnd, startAt, endAt) ==
    LET newStartPath == newStart \o startAt.path
        newEndPath == newEnd \o endAt.path
    IN  IF HasPath(ed, newStartPath) /\ HasPath(ed, newEndPath)
           /\ newStartPath # <<>> /\ newEndPath # <<>>
        THEN [anchor |-> [path |-> newStartPath,
                          offset |-> Max(0, Min(startAt.offset, StringLen(NodeAt(ed, newStartPath))))],
              focus |-> [path |-> newEndPath,
                         offset |-> Max(0, Min(endAt.offset, StringLen(NodeAt(ed, newEndPath))))]]
        ELSE NoSel

\* The strategies the fallback chain attempts before the one numbered n:
\* the first only for a calculated selection, the third only for a new
\* start block path.
TriedBefore(n, newSelection, newStartBlockPath) ==
    SelectSeq(<<"nearestFromCalculated", "nearestFromOriginal", "startOfBlock", "document">>,
              LAMBDA name :
                  \/ name = "nearestFromCalculated" /\ n > 1 /\ newSelection # NoSel
                  \/ name = "nearestFromOriginal" /\ n > 2
                  \/ name = "startOfBlock" /\ n > 3 /\ newStartBlockPath # <<>>
                  \/ name = "document" /\ n > 4)

\* The selection tabEvent ends with, the strategy that produced it and the
\* strategies attempted.
RestoreFrom_mut(newSelection, valid, nearestFromCalculated, nearestFromOriginal, newStartBlockPath, startOfBlock, validStart, documentSelection) ==
    IF newSelection # NoSel /\ valid
    THEN [sel |-> newSelection, strategy |-> "calculated", tried |-> <<>>]
    ELSE IF newSelection # NoSel /\ nearestFromCalculated # NoSel
    THEN [sel |-> nearestFromCalculated, strategy |-> "nearestFromCalculated",
          tried |-> TriedBefore(2, newSelection, newStartBlockPath)]
    ELSE IF newStartBlockPath # <<>> /\ startOfBlock # NoPoint /\ validStart
    THEN [sel |-> Collapsed(startOfBlock), strategy |-> "startOfBlock",
          tried |-> TriedBefore(4, newSelection, newStartBlockPath)]
    ELSE IF nearestFromOriginal # NoSel
    THEN [sel |-> nearestFromOriginal, strategy |-> "nearestFromOriginal",
          tried |-> TriedBefore(4, newSelection, newStartBlockPath)]
    ELSE IF documentSelection # NoSel
    THEN [sel |-> documentSelection, strategy |-> "document",
          tried |-> TriedBefore(5, newSelection, newStartBlockPath)]
    ELSE [sel |-> NoSel, strategy |-> "none", tried |-> TriedBefore(5, newSelection, newStartBlockPath)]

RestoreFrom(newSelection, valid, nearestFromCalculated, nearestFromOriginal, newStartBlockPath, startOfBlock, validStart, documentSelection) ==
    IF newSelection # NoSel /\ valid
    THEN [sel |-> newSelection, strategy |-> "calculated", tried |-> <<>>]
    ELSE IF newSelection # NoSel /\ nearestFromCalculated # NoSel
    THEN [sel |-> nearestFromCalculated, strategy |-> "nearestFromCalculated",
          tried |-> TriedBefore(2, newSelection, newStartBlockPath)]
    ELSE IF nearestFromOriginal # NoSel
    THEN [sel |-> nearestFromOriginal, strategy |-> "nearestFromOriginal",
          tried |-> TriedBefore(3, newSelection, newStartBlockPath)]
    ELSE IF newStartBlockPath # <<>> /\ startOfBlock # NoPoint /\ validStart
    THEN [sel |-> Collapsed(startOfBlock), strategy |-> "startOfBlock",
          tried |-> TriedBefore(4, newSelection, newStartBlockPath)]
    ELSE IF documentSelection # NoSel
    THEN [sel |-> documentSelection, strategy |-> "document",
          tried |-> TriedBefore(5, newSelection, newStartBlockPath)]
    ELSE [sel |-> NoSel, strategy |-> "none", tried |-> TriedBefore(5, newSelection, newStartBlockPath)]

RestoreAt_mut(ed, newSelection, originalSelection, newStartBlockPath, startOfBlock) ==
    RestoreFrom(newSelection,
                isValidSelection(ed, newSelection),
                findNearestValidSelection(ed, newSelection),
                NoSel,
                newStartBlockPath, startOfBlock,
                isValidSelection(ed, Collapsed(startOfBlock)),
                NoSel)

RestoreAt(ed, newSelection, originalSelection, newStartBlockPath, startOfBlock) ==
    RestoreFrom(newSelection,
                isValidSelection(ed, newSelection),
                findNearestValidSelection(ed, newSelection),
                findNearestValidSelection(ed, originalSelection),
                newStartBlockPath, startOfBlock,
                isValidSelection(ed, Collapsed(startOfBlock)),
                findNearestValidSelection(ed, NoSel))

RestoreSelection(ed, newSelection, originalSelection, newStartBlockPath) ==
    RestoreAt(ed, newSelection, originalSelection, newStartBlockPath,
              EditorStart(ed, newStartBlockPath))

\* One round of blocks.forEach: the block is moved in a transaction of its
\* own; a block that is no longer in the store is passed over.
TabBlock(acc, id, index, count, shift) ==
    IF ~HasBlock(acc.w.root, id) THEN acc
    ELSE LET t == IF shift THEN liftBlock(Begin(acc.w), id, index)
                  ELSE indentBlock(Begin(acc.w), id)
         IN  [w |-> executeOperations(acc.w, t),
              results |-> Append(acc.results,
                                 [originalId |-> id, newId |-> t.result,
                                  isStart |-> index = 0, isEnd |-> index = count - 1]),
              txns |-> acc.txns + (IF t.keys = <<>> THEN 0 ELSE 1)]

RECURSIVE TabBlocks(_, _, _, _)
TabBlocks(acc, ids, index, shift) ==
    IF index >= Len(ids) THEN acc
    ELSE TabBlocks(TabBlock(acc, ids[index + 1], index, Len(ids), shift), ids, index + 1, shift)

\* blockResults.find(...)?.newId, NoId when there is none.
FindNewId(results, start) ==
    LET found == SelectSeq(results, LAMBDA r : IF start THEN r.isStart ELSE r.isEnd)
    IN  IF found = <<>> THEN NoId ELSE found[1].newId

\* The ids of the blocks tabEvent works on, in order.
TabIds(ed, sel) ==
    LET affected == getAffectedBlocks(ed, sel)
        paths == IF affected.startBlock = affected.endBlock THEN <<affected.startBlock>>
                 ELSE <<affected.startBlock>> \o affected.middleBlocks \o <<affected.endBlock>>
    IN  [i \in 1..Len(paths) |-> NodeAt(ed, paths[i]).blockId]

\* Whether the ids left suffice for the copies tabEvent may make.
CanTab(w, sel) == w.nextId + Len(Subtree(w.root, PageId)) - 2 <= MaxCmdId

\* The sub-path and offset of a point below the block at blockPath.
RelativeAt(pt, blockPath) ==
    [path |-> SubSeq(pt.path, Len(blockPath) + 1, Len(pt.path)), offset |-> pt.offset]

TabOutcome(w, name, ids, txns, startNew, restored) ==
    Outcome(w, restored.sel, name, <<restored.strategy>>, ids, startNew, txns)

\* The end of tabEvent once the new block paths are known.
TabRestore(w, name, ids, txns, startNew, newStart, newEnd, startAt, endAt, originalSelection) ==
    IF newStart = NoPath \/ newEnd = NoPath
    THEN IF Len(ids) = 1 THEN Outcome(w, NoSel, name, <<"noEntry">>, ids, startNew, txns)
         ELSE Outcome(w, findNearestValidSelection(w.ed, originalSelection), name,
                      <<"fallback">>, ids, startNew, txns)
    ELSE TabOutcome(w, name, ids, txns, startNew,
                    RestoreSelection(w.ed, CalculatedSelection(w.ed, newStart, newEnd, startAt, endAt),
                                     originalSelection, newStart))

\* The end of tabEvent once the new block ids are known.
TabResolve(w, name, ids, txns, startNew, endNew, startAt, endAt, originalSelection) ==
    IF startNew = NoId \/ endNew = NoId
    THEN Outcome(w, NoSel, name, <<"noNewId">>, ids, startNew, txns)
    ELSE TabRestore(w, name, ids, txns, startNew,
                    findSlateEntryByBlockId(w.ed, startNew), findSlateEntryByBlockId(w.ed, endNew),
                    startAt, endAt, originalSelection)

TabFinish(done, name, ids, startAt, endAt, originalSelection) ==
    TabResolve(done.w, name, ids, done.txns,
               FindNewId(done.results, TRUE),
               FindNewId(done.results, FALSE),
               startAt, endAt, originalSelection)

TabMove(w, name, shift, ids, edges, affected) ==
    TabFinish(TabBlocks([w |-> w, results |-> <<>>, txns |-> 0], ids, 0, shift),
              name, ids,
              RelativeAt(edges[1], affected.startBlock), RelativeAt(edges[2], affected.endBlock),
              [anchor |-> edges[1], focus |-> edges[2]])

\* tabEvent past its guards: the blocks are moved and the selection restored.
tabEventMove(w, sel, shift) ==
    TabMove(w, IF shift THEN "tabBackward" ELSE "tabForward", shift,
            TabIds(w.ed, sel), Edges(sel), getAffectedBlocks(w.ed, sel))

tabEvent_mut(w, sel, shift) ==
    tabEventMove(w, sel, shift)

tabEvent(w, sel, shift) ==
    LET name == IF shift THEN "tabBackward" ELSE "tabForward"
        affected == getAffectedBlocks(w.ed, sel)
        node == NodeAt(w.ed, affected.startBlock)
    IN  IF shift /\ preventLiftNode(w.ed, node.blockId)
        THEN Outcome(w, sel, name, <<"prevented">>, <<>>, NoId, 0)
        ELSE IF ~shift /\ preventIndentNode(w.ed, node.blockId)
        THEN Outcome(w, sel, name, <<"prevented">>, <<>>, NoId, 0)
        ELSE tabEventMove(w, sel, shift)

(***************************************************************************)
(* Block verbs: deleteBlock, duplicateBlock, turnToBlock, toggleTodoList   *)
(***************************************************************************)
\* Editor.end(editor, path): the end of the last text run at or below path;
\* NoPoint when Slate throws for want of a text run.
RECURSIVE LastLeaf(_, _)
LastLeaf(ed, path) ==
    IF ~HasPath(ed, path) \/ path = <<>> THEN NoPath
    ELSE LET n == NodeAt(ed, path)
         IN  IF n.kind = "leaf" THEN path
             ELSE IF n.children = <<>> THEN NoPath
             ELSE LastLeaf(ed, Append(path, Len(n.children) - 1))

EditorEnd(ed, path) ==
    LET l == LastLeaf(ed, path)
    IN  IF l = NoPath THEN NoPoint ELSE [path |-> l, offset |-> TextLen(NodeAt(ed, l))]

\* The cursor target deleteBlock computes before the removal: the end of
\* the previous sibling, else the start of the parent unless the parent is
\* the page.  "return" when the command ends early, "throw" when Slate
\* throws inside the try block.
DeleteBlockTarget(w, blockId) ==
    LET prevBlockId == getPreviousSiblingBlock(w.root, blockId)
        parent == w.root.blocks[blockId].parent
        path == findSlateEntryByBlockId(w.ed, IF prevBlockId = NoId THEN parent ELSE prevBlockId)
        point == IF prevBlockId = NoId THEN EditorStart(w.ed, path) ELSE EditorEnd(w.ed, path)
    IN  IF prevBlockId = NoId /\ w.root.blocks[parent].ty = "page"
        THEN [kind |-> "point", point |-> NoPoint]
        ELSE IF path = NoPath THEN [kind |-> "return", point |-> NoPoint]
        ELSE IF point = NoPoint THEN [kind |-> "throw", point |-> NoPoint]
        ELSE [kind |-> "point", point |-> point]

\* The selection after the try block when the target is selected without
\* asking whether it is a renderable range.
DeleteBlockSelect_mut(target, sel, hasRange) ==
    IF target.kind = "throw" THEN sel
    ELSE IF target.point # NoPoint THEN Collapsed(target.point)
    ELSE NoSel

\* The selection after the try block; hasRange is the outcome of
\* ReactEditor.hasRange for the target.
DeleteBlockSelect(target, sel, hasRange) ==
    IF target.kind = "throw" THEN sel
    ELSE IF target.point # NoPoint /\ hasRange THEN Collapsed(target.point)
    ELSE NoSel

\* addBlock: a new block with an empty text under parent at index, in a
\* transaction of its own.
addBlock(w, ty, data, parent, index) ==
    executeOperations(w, TxPut(Begin(w), w.nextId,
                               [parent |-> parent, ty |-> ty, data |-> data, ext |-> w.nextId],
                               index, 0))

\* Block data: a field that is absent reads "none".
DataFields == {"checked", "level"}
EmptyData == [f \in DataFields |-> "none"]

\* The end of deleteBlock: the placeholder is added when the editable tree
\* has no children left.
DeleteBlockDone(after, sel, blockId, parent) ==
    IF after.ed = <<>>
    THEN Outcome(addBlock(after, "paragraph", EmptyData, parent, 0), sel, "deleteBlock",
                 <<"deleteBlock", "addBlock">>, <<blockId>>, parent, 2)
    ELSE Outcome(after, sel, "deleteBlock", <<"deleteBlock">>, <<blockId>>, parent, 1)

DeleteBlockWith(w, sel, blockId, target, hasRange) ==
    IF target.kind = "return"
    THEN Outcome(w, sel, "deleteBlock", <<>>, <<blockId>>, NoId, 0)
    ELSE DeleteBlockDone(executeOperations(w, TxDelete(Begin(w), blockId)),
                         DeleteBlockSelect(target, sel, hasRange),
                         blockId, w.root.blocks[blockId].parent)

deleteBlock(w, sel, blockId, hasRange) ==
    IF ~HasBlock(w.root, w.root.blocks[blockId].parent)
    THEN Outcome(w, sel, "deleteBlock", <<>>, <<blockId>>, NoId, 0)
    ELSE DeleteBlockWith(w, sel, blockId, DeleteBlockTarget(w, blockId), hasRange)

\* getBlockIndex: the position of the block among its parent's children.
getBlockIndex(root, id) == FindIndex(getChildrenArray(root, root.blocks[id].parent), id)

\* duplicateBlock: a deep copy of the block goes under the block's parent,
\* behind the position of prevId (of the block when prevId is NoId).
duplicateBlock(w, sel, blockId, prevId) ==
    LET parent == w.root.blocks[blockId].parent
        reference == IF prevId = NoId THEN blockId ELSE prevId
        prevIndex == getBlockIndex(w.root, reference)
    IN  IF ~HasBlock(w.root, parent)
        THEN Outcome(w, sel, "duplicateBlock", <<>>, <<blockId, reference>>, NoId, 0)
        ELSE Outcome(executeOperations(w, TxCopy(Begin(w), blockId, parent, prevIndex + 1,
                                                 w.root.blocks[blockId].ty)),
                     sel, "duplicateBlock", <<"duplicateBlock">>, <<blockId, reference>>,
                     w.nextId, 1)

\* CustomEditor.turnToBlock
CustomEditor_turnToBlock_mut(w, sel, blockId, type, data) ==
    IF w.root.blocks[blockId].ty = type
    THEN Outcome(w, sel, "turnToBlock", <<>>, <<blockId>>, NoId, 0)
    ELSE Outcome(executeOperations(w, turnToBlock(Begin(w), blockId, type, data)),
                 sel, "turnToBlock", <<"turnToBlock">>, <<blockId>>, w.nextId, 1)

CustomEditor_turnToBlock(w, sel, blockId, type, data) ==
    IF w.root.blocks[blockId].ty = type /\ w.root.blocks[blockId].data = data
    THEN Outcome(w, sel, "turnToBlock", <<>>, <<blockId>>, NoId, 0)
    ELSE Outcome(executeOperations(w, turnToBlock(Begin(w), blockId, type, data)),
                 sel, "turnToBlock", <<"turnToBlock">>, <<blockId>>, w.nextId, 1)

\* The local set_node operation reaches the shared tree: the block's data
\* is replaced.
applySetNode(w, blockId, data) ==
    [w EXCEPT !.root.blocks[blockId].data = data]

\* {...oldData, ...updateData}
MergeData(oldData, updateData) ==
    [f \in DataFields |-> IF updateData[f] # "none" THEN updateData[f] ELSE oldData[f]]

\* setBlockData with select = false
setBlockData(w, blockId, updateData) ==
    LET newData == MergeData(w.root.blocks[blockId].data, updateData)
        path == findSlateEntryByBlockId(w.ed, blockId)
    IN  IF path = NoPath THEN w
        ELSE applySetNode([w EXCEPT !.ed = SetNodeData(@, path, newData)], blockId, newData)

\* !checked
Negated(checked) == IF checked = "true" THEN "false" ELSE "true"

IsPrefix(p, q) == Len(p) <= Len(q) /\ SubSeq(q, 1, Len(p)) = p

\* Editor.nodes over the range of the block at path, matching todo list
\* elements: the traversal yields the elements above the range, the block,
\* and the elements below it, in document order.
ToggleBlockNodes(ed, path) ==
    SelectSeq(BlockPaths(ed, <<>>),
              LAMBDA p : /\ IsPrefix(p, path) \/ IsPrefix(path, p)
                         /\ NodeAt(ed, p).ty = "todo_list")

RECURSIVE ToggleAll(_, _, _)
ToggleAll(w, ids, update) ==
    IF ids = <<>> THEN w
    ELSE ToggleAll(setBlockData(w, Head(ids), update), Tail(ids), update)

ToggleIds(ed, path) ==
    LET paths == ToggleBlockNodes(ed, path)
    IN  [i \in 1..Len(paths) |-> NodeAt(ed, paths[i]).blockId]

toggleTodoList(w, sel, blockId, shiftKey) ==
    LET checked == w.root.blocks[blockId].data.checked
        update == [EmptyData EXCEPT !.checked = Negated(checked)]
        path == findSlateEntryByBlockId(w.ed, blockId)
        ids == ToggleIds(w.ed, path)
    IN  IF ~shiftKey
        THEN Outcome(setBlockData(w, blockId, update), sel, "toggleTodoList", <<"setBlockData">>,
                     <<blockId>>, blockId, 0)
        ELSE IF path = NoPath \/ EditorStart(w.ed, path) = NoPoint
        THEN Outcome(w, sel, "toggleTodoList", <<>>, <<>>, blockId, 0)
        ELSE Outcome(ToggleAll(w, ids, update), sel, "toggleTodoListAll", <<"setBlockData">>,
                     ids, blockId, 0)

(***************************************************************************)
(* Initial documents                                                       *)
(***************************************************************************)
Para(parent) == [parent |-> parent, ty |-> "paragraph", data |-> 0, ext |-> NoId]
TextPara(id, parent) == [parent |-> parent, ty |-> "paragraph", data |-> 0, ext |-> id]
Page == [parent |-> NoId, ty |-> "page", data |-> 0, ext |-> NoId]

\* page [1, 2]
DocFlat ==
    [blocks |-> (0 :> Page) @@ (1 :> TextPara(1, 0)) @@ (2 :> TextPara(2, 0)),
     childrenMap |-> (0 :> <<1, 2>>) @@ (1 :> <<>>) @@ (2 :> <<>>),
     textMap |-> (1 :> 1) @@ (2 :> 1),
     nextId |-> 3]

\* page [1 [2]]
DocNested ==
    [blocks |-> (0 :> Page) @@ (1 :> TextPara(1, 0)) @@ (2 :> TextPara(2, 1)),
     childrenMap |-> (0 :> <<1>>) @@ (1 :> <<2>>) @@ (2 :> <<>>),
     textMap |-> (1 :> 1) @@ (2 :> 1),
     nextId |-> 3]

InitDocs == {DocFlat, DocNested}

Init ==
    /\ wsData = Idle
    /\ appPage = Idle
    /\ apiSvc = Idle
    /\ \E doc \in InitDocs :
        /\ blocks = doc.blocks
        /\ childrenMap = doc.childrenMap
        /\ textMap = doc.textMap
        /\ nextId = doc.nextId
        /\ slate = ScratchChildren(doc)
        /\ txn = NoTxn
        /\ lastBatch = <<>>
        /\ trace = <<>>
        /\ threw = FALSE
        /\ last = "init"
        /\ opsDone = 0
        /\ selection = NoSel
        /\ handler = NoHandler

\* Text kinds of the blocks the structural transactions insert.
(***************************************************************************)
(* Editing sessions: a cursor or range is set and commands are invoked     *)
(***************************************************************************)
Typed(id, parent, ty) == [parent |-> parent, ty |-> ty, data |-> 0, ext |-> id]

\* page [1:bulleted_list [2:paragraph], 3:heading]
DocList ==
    [blocks |-> (0 :> Page) @@ (1 :> Typed(1, 0, "bulleted_list"))
                @@ (2 :> Typed(2, 1, "paragraph")) @@ (3 :> Typed(3, 0, "heading")),
     childrenMap |-> (0 :> <<1, 3>>) @@ (1 :> <<2>>) @@ (2 :> <<>>) @@ (3 :> <<>>),
     textMap |-> (1 :> 1) @@ (2 :> 1) @@ (3 :> 0),
     nextId |-> 4]

\* page [1:quote [2:bulleted_list], 3:paragraph]
DocQuote ==
    [blocks |-> (0 :> Page) @@ (1 :> Typed(1, 0, "quote"))
                @@ (2 :> Typed(2, 1, "bulleted_list")) @@ (3 :> Typed(3, 0, "paragraph")),
     childrenMap |-> (0 :> <<1, 3>>) @@ (1 :> <<2>>) @@ (2 :> <<>>) @@ (3 :> <<>>),
     textMap |-> (1 :> 1) @@ (2 :> 1) @@ (3 :> 1),
     nextId |-> 4]

\* page [1:quote [2:heading]]
DocHeading ==
    [blocks |-> (0 :> Page) @@ (1 :> Typed(1, 0, "quote")) @@ (2 :> Typed(2, 1, "heading")),
     childrenMap |-> (0 :> <<1>>) @@ (1 :> <<2>>) @@ (2 :> <<>>),
     textMap |-> (1 :> 1) @@ (2 :> 1),
     nextId |-> 3]

\* page [1:paragraph, 2:bulleted_list [3:paragraph]]
DocTail ==
    [blocks |-> (0 :> Page) @@ (1 :> Typed(1, 0, "paragraph"))
                @@ (2 :> Typed(2, 0, "bulleted_list")) @@ (3 :> Typed(3, 2, "paragraph")),
     childrenMap |-> (0 :> <<1, 2>>) @@ (1 :> <<>>) @@ (2 :> <<3>>) @@ (3 :> <<>>),
     textMap |-> (1 :> 1) @@ (2 :> 1) @@ (3 :> 1),
     nextId |-> 4]

\* page [1:paragraph, 2:paragraph, 3:heading]
DocThree ==
    [blocks |-> (0 :> Page) @@ (1 :> Typed(1, 0, "paragraph"))
                @@ (2 :> Typed(2, 0, "paragraph")) @@ (3 :> Typed(3, 0, "heading")),
     childrenMap |-> (0 :> <<1, 2, 3>>) @@ (1 :> <<>>) @@ (2 :> <<>>) @@ (3 :> <<>>),
     textMap |-> (1 :> 1) @@ (2 :> 1) @@ (3 :> 0),
     nextId |-> 4]

CmdDocs == {DocList, DocQuote, DocHeading, DocTail, DocThree}

InitCmd ==
    /\ wsData = Idle
    /\ appPage = Idle
    /\ apiSvc = Idle
    /\ \E doc \in CmdDocs :
        /\ blocks = doc.blocks
        /\ childrenMap = doc.childrenMap
        /\ textMap = doc.textMap
        /\ nextId = doc.nextId
        /\ slate = ScratchChildren(doc)
        /\ txn = NoTxn
        /\ lastBatch = <<>>
        /\ trace = <<>>
        /\ threw = FALSE
        /\ last = "init"
        /\ opsDone = 0
        /\ selection = NoSel
        /\ handler = NoHandler

\* The points of the editable tree.
Points(ed) ==
    LET leaves == LeafPaths(ed, <<>>)
    IN  {pt \in [path : SeqRange(leaves), offset : 0..1] : ValidPoint(ed, pt)}

\* Transforms.select: the user puts the cursor or a range somewhere.
Select ==
    /\ \E a \in Points(slate), f \in Points(slate) :
           /\ Edges([anchor |-> a, focus |-> f]) = <<a, f>>
           /\ selection' = [anchor |-> a, focus |-> f]
    /\ last' = "select"
    /\ handler' = NoHandler
    /\ UNCHANGED appVars
    /\ UNCHANGED <<blocks, childrenMap, textMap, slate, nextId, txn, lastBatch, trace, threw, opsDone, appVars>>

\* The state after a command.
Apply(out) ==
    /\ blocks' = out.w.root.blocks
    /\ childrenMap' = out.w.root.childrenMap
    /\ textMap' = out.w.root.textMap
    /\ slate' = out.w.ed
    /\ nextId' = out.w.nextId
    /\ selection' = out.sel
    /\ handler' = out.handler
    /\ UNCHANGED appVars
    /\ last' = out.handler.name
    /\ UNCHANGED <<txn, lastBatch, trace, threw, opsDone>>

DeleteBlockBackward ==
    /\ selection # NoSel
    /\ selection.anchor = selection.focus
    /\ CanDeleteBackward(World, selection)
    /\ Apply(deleteBlockBackward(World, selection))

TabEvent(shift) ==
    /\ selection # NoSel
    /\ CanTab(World, selection)
    /\ Apply(tabEvent(World, selection, shift))

NextCmd ==
    \/ Select
    \/ DeleteBlockBackward
    \/ \E shift \in BOOLEAN : TabEvent(shift)

SpecCmd == InitCmd /\ [][NextCmd]_vars

(***************************************************************************)
(* The selection fallback chain on its own: the outcomes of the validity   *)
(* test and of the searches it calls are inputs                            *)
(***************************************************************************)
\* Selections the searches may come back with.
SelA == Collapsed([path |-> <<0, 0, 0>>, offset |-> 0])
SelB == Collapsed([path |-> <<1, 0, 0>>, offset |-> 0])
Found == {NoSel, SelA, SelB}

RestoreInputs ==
    {in \in [newSelection : Found, valid : BOOLEAN, nearestFromCalculated : Found,
             nearestFromOriginal : Found, newStartBlockPath : {<<>>, <<1>>},
             startOfBlock : {NoPoint, SelB.anchor}, validStart : BOOLEAN,
             documentSelection : {NoSel, SelA}] :
        /\ in.valid => in.newSelection # NoSel
        /\ in.validStart => in.startOfBlock # NoPoint}

\* tabEvent reaches the end of its mutation and restores the selection.
Restore ==
    /\ handler = NoHandler
    /\ \E in \in RestoreInputs :
           LET r == RestoreFrom(in.newSelection, in.valid, in.nearestFromCalculated,
                                in.nearestFromOriginal, in.newStartBlockPath,
                                in.startOfBlock, in.validStart, in.documentSelection)
           IN  /\ selection' = r.sel
               /\ handler' = [name |-> "restore", applied |-> <<r.strategy>>, affected |-> r.tried,
                              result |-> NoId, txns |-> 0, input |-> in]
    /\ last' = "restore"
    /\ UNCHANGED <<blocks, childrenMap, textMap, slate, nextId, txn, lastBatch, trace, threw, opsDone, appVars>>

NextRestore == Restore

SpecRestore == InitCmd /\ [][NextRestore]_vars

(***************************************************************************)
(* Block verbs on documents whose blocks carry data                        *)
(***************************************************************************)
BData(checked) == [checked |-> checked, level |-> "1"]
TypedWith(id, parent, ty, data) == [parent |-> parent, ty |-> ty, data |-> data, ext |-> id]
DataPage == [parent |-> NoId, ty |-> "page", data |-> EmptyData, ext |-> NoId]

\* page [1:todo_list [2:todo_list [3:todo_list], 4:paragraph]]
DocTodo ==
    [blocks |-> (0 :> DataPage) @@ (1 :> TypedWith(1, 0, "todo_list", BData("false")))
                @@ (2 :> TypedWith(2, 1, "todo_list", BData("true")))
                @@ (3 :> TypedWith(3, 2, "todo_list", BData("true")))
                @@ (4 :> TypedWith(4, 1, "paragraph", BData("true"))),
     childrenMap |-> (0 :> <<1>>) @@ (1 :> <<2, 4>>) @@ (2 :> <<3>>) @@ (3 :> <<>>) @@ (4 :> <<>>),
     textMap |-> (1 :> 1) @@ (2 :> 1) @@ (3 :> 1) @@ (4 :> 1),
     nextId |-> 5]

\* page [1:paragraph]
DocSingle ==
    [blocks |-> (0 :> DataPage) @@ (1 :> TypedWith(1, 0, "paragraph", EmptyData)),
     childrenMap |-> (0 :> <<1>>) @@ (1 :> <<>>),
     textMap |-> (1 :> 1),
     nextId |-> 2]

\* page [1:bulleted_list [2:paragraph], 3:todo_list]
DocNest ==
    [blocks |-> (0 :> DataPage) @@ (1 :> TypedWith(1, 0, "bulleted_list", EmptyData))
                @@ (2 :> TypedWith(2, 1, "paragraph", EmptyData))
                @@ (3 :> TypedWith(3, 0, "todo_list", BData("false"))),
     childrenMap |-> (0 :> <<1, 3>>) @@ (1 :> <<2>>) @@ (2 :> <<>>) @@ (3 :> <<>>),
     textMap |-> (1 :> 1) @@ (2 :> 1) @@ (3 :> 0),
     nextId |-> 4]

BlockDocs == {DocTodo, DocSingle, DocNest}

InitBlock ==
    /\ wsData = Idle
    /\ appPage = Idle
    /\ apiSvc = Idle
    /\ \E doc \in BlockDocs :
        /\ blocks = doc.blocks
        /\ childrenMap = doc.childrenMap
        /\ textMap = doc.textMap
        /\ nextId = doc.nextId
        /\ slate = ScratchChildren(doc)
        /\ txn = NoTxn
        /\ lastBatch = <<>>
        /\ trace = <<>>
        /\ threw = FALSE
        /\ last = "init"
        /\ opsDone = 0
        /\ selection = NoSel
        /\ handler = NoHandler

\* The blocks a verb can be invoked on.
Targets == DOMAIN blocks \ {PageId}

\* The command's record together with what it was asked to do.
Asked(out, input) == [out EXCEPT !.handler = @ @@ [input |-> input]]

\* Whether the ids left suffice to copy the block and its descendants.
CanCopyBlock(w, id) == w.nextId + Len(Subtree(w.root, id)) - 1 <= MaxBlockId

\* The state after a block verb; opsDone counts the verbs invoked.
ApplyVerb(out) ==
    /\ opsDone < MaxVerbs
    /\ blocks' = out.w.root.blocks
    /\ childrenMap' = out.w.root.childrenMap
    /\ textMap' = out.w.root.textMap
    /\ slate' = out.w.ed
    /\ nextId' = out.w.nextId
    /\ selection' = out.sel
    /\ handler' = out.handler
    /\ UNCHANGED appVars
    /\ last' = out.handler.name
    /\ opsDone' = opsDone + 1
    /\ UNCHANGED <<txn, lastBatch, trace, threw>>

DeleteBlock ==
    \E blockId \in Targets, hasRange \in BOOLEAN :
        /\ nextId <= MaxBlockId
        /\ ApplyVerb(deleteBlock(World, selection, blockId, hasRange))

DuplicateBlock ==
    \E blockId \in Targets, prevId \in Targets \cup {NoId} :
        /\ CanCopyBlock(World, blockId)
        /\ ApplyVerb(duplicateBlock(World, selection, blockId, prevId))

TurnTypes == {"paragraph", "todo_list"}
TurnData == {BData("true"), EmptyData}

TurnToBlock ==
    \E blockId \in Targets, type \in TurnTypes, data \in TurnData :
        /\ CanCopyBlock(World, blockId)
        /\ ApplyVerb(Asked(CustomEditor_turnToBlock(World, selection, blockId, type, data),
                           [type |-> type, data |-> data]))

ToggleTodoList ==
    \E blockId \in Targets, shiftKey \in BOOLEAN :
        /\ blocks[blockId].ty = "todo_list"
        /\ ApplyVerb(toggleTodoList(World, selection, blockId, shiftKey))

NextBlock ==
    \/ DeleteBlock
    \/ DuplicateBlock
    \/ TurnToBlock
    \/ ToggleTodoList

SpecBlock == InitBlock /\ [][NextBlock]_vars

(***************************************************************************)
(* Selection repair on its own: candidates that may be stale               *)
(***************************************************************************)
\* Paths a candidate may carry: text runs of the initial documents, paths
\* to elements, and paths that exist in no document.
CandidatePaths ==
    {<<0, 0, 0>>, <<1, 0, 0>>, <<0, 1, 0, 0>>, <<2, 0, 0>>, <<0, 0>>, <<1>>, <<5, 0, 0>>}

CandidatePoints == [path : CandidatePaths, offset : 0..2]

\* Well-formed candidates: null, cursors and ranges.
Candidates == {NoSel} \cup [anchor : CandidatePoints, focus : CandidatePoints]

Cursors == {NoSel} \cup {Collapsed(pt) : pt \in CandidatePoints}

\* page [1, 2] without any text, and the empty page
DocBare ==
    [blocks |-> (0 :> Page) @@ (1 :> Para(0)) @@ (2 :> Para(0)),
     childrenMap |-> (0 :> <<1, 2>>) @@ (1 :> <<>>) @@ (2 :> <<>>),
     textMap |-> <<>>,
     nextId |-> 3]

DocEmpty ==
    [blocks |-> (0 :> Page), childrenMap |-> (0 :> <<>>), textMap |-> <<>>, nextId |-> 1]

RepairDocs == CmdDocs \cup {DocBare, DocEmpty}

InitRepair ==
    /\ wsData = Idle
    /\ appPage = Idle
    /\ apiSvc = Idle
    /\ \E doc \in RepairDocs :
        /\ blocks = doc.blocks
        /\ childrenMap = doc.childrenMap
        /\ textMap = doc.textMap
        /\ nextId = doc.nextId
        /\ slate = ScratchChildren(doc)
        /\ txn = NoTxn
        /\ lastBatch = <<>>
        /\ trace = <<>>
        /\ threw = FALSE
        /\ last = "init"
        /\ opsDone = 0
        /\ selection = NoSel
        /\ handler = NoHandler

FindNearest ==
    /\ handler = NoHandler
    /\ \E candidate \in Candidates :
           /\ selection' = findNearestValidSelection(slate, candidate)
           /\ handler' = [name |-> "findNearestValidSelection", applied |-> <<>>,
                          affected |-> <<>>, result |-> NoId, txns |-> 0, input |-> candidate]
    /\ last' = "findNearestValidSelection"
    /\ UNCHANGED <<blocks, childrenMap, textMap, slate, nextId, txn, lastBatch, trace, threw, opsDone, appVars>>

\* tabEvent restores the selection after its moves, from a calculated
\* selection, the original selection and the path of the first moved block.
RestoreChain ==
    /\ handler = NoHandler
    /\ \E newSelection \in Cursors, originalSelection \in Cursors \ {NoSel},
          newStartBlockPath \in {<<>>, <<0>>, <<1>>, <<5>>} :
           LET r == RestoreSelection(slate, newSelection, originalSelection, newStartBlockPath)
           IN  /\ selection' = r.sel
               /\ handler' = [name |-> "restoreSelection", applied |-> <<r.strategy>>,
                              affected |-> r.tried, result |-> NoId, txns |-> 0,
                              input |-> newSelection]
    /\ last' = "restoreSelection"
    /\ UNCHANGED <<blocks, childrenMap, textMap, slate, nextId, txn, lastBatch, trace, threw, opsDone, appVars>>

NextRepair ==
    \/ FindNearest
    \/ RestoreChain

SpecRepair == InitRepair /\ [][NextRepair]_vars

(***************************************************************************)
(* The edge server's static route                                          *)
(*                                                                         *)
(* Strings are sequences of characters; the names of the first path        *)
(* component are single tokens.                                            *)
(***************************************************************************)
STATIC_PATHS == {<<"/", "static", "/">>, <<"/", ".well-known", "/">>}
STATIC_FILES == {<<"/", "og-image.png">>}

\* distDir, as path components.
distDir == <<<<"srv">>, <<"dist">>>>

HexDigits == {"2", "5", "e", "f"}

\* The character an escape %hl stands for; "x" is any character that is
\* neither a dot, a slash nor a percent sign.
Unescape(h, l) ==
    IF h = "2" /\ l = "e" THEN "."
    ELSE IF h = "2" /\ l = "f" THEN "/"
    ELSE IF h = "2" /\ l = "5" THEN "%"
    ELSE "x"

\* decodeURIComponent: every escape is replaced once; ok is FALSE when it
\* throws URIError, for a percent sign without two hex digits behind it or
\* for a byte from 0x80 on that starts no complete UTF-8 sequence.
RECURSIVE decodeURIComponent(_)
decodeURIComponent(str) ==
    IF str = <<>> THEN [ok |-> TRUE, out |-> <<>>]
    ELSE IF Head(str) # "%"
    THEN LET rest == decodeURIComponent(Tail(str))
         IN  [ok |-> rest.ok, out |-> <<Head(str)>> \o rest.out]
    ELSE IF Len(str) < 3 \/ str[2] \notin HexDigits \/ str[3] \notin HexDigits
    THEN [ok |-> FALSE, out |-> <<>>]
    ELSE IF str[2] \in {"e", "f"} THEN [ok |-> FALSE, out |-> <<>>]
    ELSE LET rest == decodeURIComponent(SubSeq(str, 4, Len(str)))
         IN  [ok |-> rest.ok, out |-> <<Unescape(str[2], str[3])>> \o rest.out]

\* String.prototype.includes('..')
IncludesDotDot(str) == \E i \in 1..(Len(str) - 1) : str[i] = "." /\ str[i + 1] = "."

\* String.prototype.startsWith
StartsWith(str, prefix) == Len(prefix) <= Len(str) /\ SubSeq(str, 1, Len(prefix)) = prefix

\* The components of a path, split at the slashes.
RECURSIVE SplitPath(_, _)
SplitPath(str, current) ==
    IF str = <<>> THEN <<current>>
    ELSE IF Head(str) = "/" THEN <<current>> \o SplitPath(Tail(str), <<>>)
    ELSE SplitPath(Tail(str), Append(current, Head(str)))

\* path.resolve(base, relative): empty and "." components are dropped, ".."
\* removes the component before it, down to the root.
RECURSIVE ResolveFrom(_, _)
ResolveFrom(base, segments) ==
    IF segments = <<>> THEN base
    ELSE LET seg == Head(segments)
         IN  IF seg = <<>> \/ seg = <<".">> THEN ResolveFrom(base, Tail(segments))
             ELSE IF seg = <<".", ".">>
             THEN ResolveFrom(IF base = <<>> THEN base ELSE Front(base), Tail(segments))
             ELSE ResolveFrom(Append(base, seg), Tail(segments))

pathResolve(base, relative) == ResolveFrom(base, SplitPath(relative, <<>>))

\* filePath.startsWith(normalizedDistDir + path.sep) || filePath === normalizedDistDir
InsideDistDir(filePath) ==
    Len(distDir) <= Len(filePath) /\ SubSeq(filePath, 1, Len(distDir)) = distDir

\* The answer of the route: status 0 stands for no response (the request
\* falls through to the next route); reads are the paths handed to
\* readFileSync; exists says whether readFileSync finds the file.
Answer(status, body, reads) == [status |-> status, body |-> body, reads |-> reads]

ServeFile(filePath, exists) ==
    IF ~InsideDistDir(filePath) THEN Answer(403, "Forbidden", <<>>)
    ELSE IF exists THEN Answer(200, "file", <<filePath>>)
    ELSE Answer(0, "", <<filePath>>)

staticRoute_mut(method, pathname, exists) ==
    IF method # "GET" THEN Answer(0, "", <<>>)
    ELSE IF ~(\E p \in STATIC_PATHS : StartsWith(pathname, p)) /\ pathname \notin STATIC_FILES
    THEN Answer(0, "", <<>>)
    ELSE IF ~decodeURIComponent(Tail(pathname)).ok THEN Answer(400, "Bad Request", <<>>)
    ELSE IF IncludesDotDot(Tail(pathname)) THEN Answer(403, "Forbidden", <<>>)
    ELSE ServeFile(pathResolve(distDir, decodeURIComponent(Tail(pathname)).out), exists)

staticRoute(method, pathname, exists) ==
    IF method # "GET" THEN Answer(0, "", <<>>)
    ELSE IF ~(\E p \in STATIC_PATHS : StartsWith(pathname, p)) /\ pathname \notin STATIC_FILES
    THEN Answer(0, "", <<>>)
    ELSE IF ~decodeURIComponent(Tail(pathname)).ok THEN Answer(400, "Bad Request", <<>>)
    ELSE IF IncludesDotDot(decodeURIComponent(Tail(pathname)).out) THEN Answer(403, "Forbidden", <<>>)
    ELSE ServeFile(pathResolve(distDir, decodeURIComponent(Tail(pathname)).out), exists)

\* Requests: a method, a first component and up to MaxTail characters.
PathChars == {"/", ".", "x", "%"} \cup HexDigits
Tails == UNION {[1..n -> PathChars] : n \in 0..MaxTail}
Bases == STATIC_PATHS \cup STATIC_FILES \cup {<<"/", "etc", "/">>}
Methods == {"GET", "POST"}

InitStatic ==
    /\ wsData = Idle
    /\ appPage = Idle
    /\ apiSvc = Idle
    /\ blocks = DocEmpty.blocks
    /\ childrenMap = DocEmpty.childrenMap
    /\ textMap = DocEmpty.textMap
    /\ nextId = DocEmpty.nextId
    /\ slate = <<>>
    /\ txn = NoTxn
    /\ lastBatch = <<>>
    /\ trace = <<>>
    /\ threw = FALSE
    /\ last = "init"
    /\ opsDone = 0
    /\ selection = NoSel
    /\ handler = NoHandler

\* A request arrives and the static route answers it.
StaticRoute ==
    /\ handler = NoHandler
    /\ \E method \in Methods, base \in Bases, tail \in Tails, exists \in BOOLEAN :
           LET answer == staticRoute(method, base \o tail, exists)
           IN  handler' = [name |-> "staticRoute", applied |-> <<answer.body>>,
                           affected |-> answer.reads, result |-> answer.status, txns |-> 0,
                           input |-> [method |-> method, pathname |-> base \o tail]]
    /\ last' = "staticRoute"
    /\ UNCHANGED <<blocks, childrenMap, textMap, slate, nextId, txn, lastBatch, trace, threw,
                   opsDone, selection, appVars>>

NextStatic == StaticRoute

SpecStatic == InitStatic /\ [][NextStatic]_vars

(***************************************************************************)
(* The edge server's route chain                                           *)
(***************************************************************************)
MARKETING_PATHS == {<<"/", "login">>, <<"/", "app">>}

\* What a route hands back: the answer, the route that gave it and the
\* number of metadata fetches it made.
Routed(answer, route, fetches) ==
    [status |-> answer.status, body |-> answer.body, reads |-> answer.reads,
     route |-> route, fetches |-> fetches]

NoResponse == Answer(0, "", <<>>)

marketingRoute_mut(method, pathname) ==
    IF \E p \in MARKETING_PATHS : StartsWith(pathname, p) THEN Answer(200, "html", <<>>)
    ELSE NoResponse

marketingRoute(method, pathname) ==
    IF method # "GET" THEN NoResponse
    ELSE IF \E p \in MARKETING_PATHS : StartsWith(pathname, p) THEN Answer(200, "html", <<>>)
    ELSE NoResponse

\* decodeURIComponent of a path component that may be missing or empty.
DecodedPart(parts, i) ==
    IF Len(parts) < i \/ parts[i] = <<>> THEN [ok |-> TRUE, out |-> <<>>]
    ELSE decodeURIComponent(parts[i])

\* publishRoute: fetched is the outcome of fetchPublishMetadata: "found",
\* "missing" or "error".
PublishAnswer(namespace, publishName, fetched) ==
    IF ~namespace.ok \/ ~publishName.ok THEN Routed(Answer(404, "Not Found", <<>>), "publishRoute", 0)
    ELSE IF namespace.out = <<>> THEN Routed(Answer(302, "", <<>>), "publishRoute", 0)
    ELSE IF publishName.out = <<>> /\ fetched = "found"
    THEN Routed(Answer(302, "", <<>>), "publishRoute", 1)
    ELSE Routed(Answer(200, "html", <<>>), "publishRoute", 1)

publishRoute(method, pathname, fetched) ==
    IF method # "GET" THEN Routed(NoResponse, "publishRoute", 0)
    ELSE PublishAnswer(DecodedPart(SplitPath(Tail(pathname), <<>>), 1),
                       DecodedPart(SplitPath(Tail(pathname), <<>>), 2), fetched)

methodNotAllowed(method) ==
    IF method # "GET" THEN Answer(405, "Method not allowed", <<>>) ELSE NoResponse

notFound == Answer(404, "Not Found", <<>>)

\* The routes are tried in order; the first response is the answer.  The
\* reads and fetches of the routes that were tried add up.
RoutesAfterPublish(method, reads, published) ==
    IF published.status # 0 THEN [published EXCEPT !.reads = reads]
    ELSE IF methodNotAllowed(method).status # 0
    THEN [Routed(methodNotAllowed(method), "methodNotAllowed", published.fetches) EXCEPT !.reads = reads]
    ELSE [Routed(notFound, "notFound", published.fetches) EXCEPT !.reads = reads]

RoutesAfterStatic(method, pathname, fetched, static, marketing) ==
    IF static.status # 0 THEN Routed(static, "staticRoute", 0)
    ELSE IF marketing.status # 0
    THEN [Routed(marketing, "marketingRoute", 0) EXCEPT !.reads = static.reads]
    ELSE RoutesAfterPublish(method, static.reads, publishRoute(method, pathname, fetched))

routes(method, pathname, exists, fetched) ==
    RoutesAfterStatic(method, pathname, fetched, staticRoute(method, pathname, exists),
                      marketingRoute(method, pathname))

\* Requests to the chain: shorter tails, any first component.
RouteTails == UNION {[1..n -> PathChars] : n \in 0..(MaxTail - 2)}
RouteBases == Bases \cup MARKETING_PATHS \cup {<<"/">>, <<"/", "ns", "/">>}
RouteMethods == {"GET", "POST", "DELETE"}
Fetched == {"found", "missing", "error"}

RouteChain ==
    /\ handler = NoHandler
    /\ \E method \in RouteMethods, base \in RouteBases, tail \in RouteTails, exists \in BOOLEAN,
          fetched \in Fetched :
           LET answer == routes(method, base \o tail, exists, fetched)
           IN  handler' = [name |-> "routes", applied |-> <<answer.route>>,
                           affected |-> answer.reads, result |-> answer.status,
                           txns |-> answer.fetches,
                           input |-> [method |-> method, pathname |-> base \o tail]]
    /\ last' = "routes"
    /\ UNCHANGED <<blocks, childrenMap, textMap, slate, nextId, txn, lastBatch, trace, threw,
                   opsDone, selection, appVars>>

NextRoutes == RouteChain

SpecRoutes == InitStatic /\ [][NextRoutes]_vars

PlainKinds == {"runs", "none"}

\* Structural transactions: blocks are inserted and deleted.
Next ==
    \/ /\ opsDone < MaxOps
       /\ \E parent \in {PageId} \cup BlockIds, index \in 0..MaxId, kind \in PlainKinds :
              OpInsertBlock(parent, index, "paragraph", kind)
    \/ /\ opsDone < MaxOps
       /\ \E id \in BlockIds : OpDeleteBlock(id)
    \/ /\ opsDone < MaxOps
       /\ \E id \in BlockIds : OpDetachBlock(id)
    \/ Commit

Spec == Init /\ [][Next]_vars

(***************************************************************************)
(* deleteBlock on documents that remote transactions have changed: the     *)
(* editable tree may lack the node or the text of a block of the store     *)
(***************************************************************************)
\* A step of the store or of the observer, while no command has run.
StoreStep ==
    /\ handler = NoHandler
    /\ Next
    /\ opsDone' <= MaxEditOps

\* deleteBlock is invoked between two transactions.
DeleteBlockCmd ==
    /\ handler = NoHandler
    /\ ~txn.open
    /\ \E blockId \in DOMAIN blocks \ {PageId}, hasRange \in BOOLEAN :
           Apply(Asked(deleteBlock(World, selection, blockId, hasRange),
                       [blockId |-> blockId, hasRange |-> hasRange,
                        target |-> IF HasBlock(SharedRoot, blocks[blockId].parent)
                                   THEN DeleteBlockTarget(World, blockId).kind
                                   ELSE "noParent"]))

NextEdit ==
    \/ StoreStep
    \/ DeleteBlockCmd

SpecEdit == Init /\ [][NextEdit]_vars

\* Transactions that also change block data and replace block records.
NextData ==
    \/ /\ opsDone < MaxDataOps
       /\ \E parent \in {PageId} \cup BlockIds, index \in 0..MaxId :
              OpInsertBlock(parent, index, "paragraph", "runs")
    \/ /\ opsDone < MaxDataOps
       /\ \E id \in BlockIds : OpDeleteBlock(id)
    \/ /\ opsDone < MaxDataOps
       /\ \E id \in BlockIds, d \in DataValues : OpSetBlockData(id, d)
    \/ /\ opsDone < MaxDataOps
       /\ \E id \in BlockIds, d \in DataValues : OpSetBlock(id, d)
    \/ Commit

SpecData == Init /\ [][NextData]_vars

\* Transactions that insert blocks of every text kind.
NextText ==
    \/ /\ opsDone < MaxOps
       /\ \E parent \in {PageId} \cup BlockIds, index \in 0..MaxId, kind \in TextKinds :
              OpInsertBlock(parent, index, "paragraph", kind)
    \/ Commit

SpecText == Init /\ [][NextText]_vars

\* Structural transactions whose batch the observer may be handed again.
NextRe ==
    \/ /\ opsDone < MaxReOps
       /\ \E parent \in {PageId} \cup BlockIds, index \in 0..MaxId :
              OpInsertBlock(parent, index, "paragraph", "runs")
    \/ /\ opsDone < MaxReOps
       /\ \E id \in BlockIds : OpDeleteBlock(id)
    \/ Commit
    \/ Retranslate

SpecRe == Init /\ [][NextRe]_vars


(***************************************************************************)
(* useWorkspaceData: the database relations cache                          *)
(***************************************************************************)
\* The document side at rest while the application side runs.
quietDoc == <<blocks, childrenMap, textMap, slate, nextId, txn, lastBatch, trace, threw,
              opsDone, selection, handler>>

DocAtRest ==
    /\ blocks = DocEmpty.blocks
    /\ childrenMap = DocEmpty.childrenMap
    /\ textMap = DocEmpty.textMap
    /\ nextId = DocEmpty.nextId
    /\ slate = <<>>
    /\ txn = NoTxn
    /\ lastBatch = <<>>
    /\ trace = <<>>
    /\ threw = FALSE
    /\ last = "init"
    /\ opsDone = 0
    /\ selection = NoSel
    /\ handler = NoHandler

Workspaces == {1, 2, 3}
\* workspaceDatabasesRef.current = undefined
NoRelations == 0

\* The relations the server holds for a workspace are named by the workspace.
RelationsOf(workspaceId) == workspaceId

\* service.getAppDatabaseViewRelations(currentWorkspaceId, ...) is called:
\* the request carries the workspace id of the render that made the callback.
StartFetch(d) == [d EXCEPT !.pending = Append(@, d.currentWorkspaceId)]

RemoveAt(s, i) == SubSeq(s, 1, i - 1) \o SubSeq(s, i + 1, Len(s))

\* fetchAndUpdateDatabaseRelations behind its await: the answer of the
\* i-th request in flight arrives; res is written when it is truthy.
fetchAndUpdateDatabaseRelations(d, i, res) ==
    IF res # NoRelations
    THEN [d EXCEPT !.workspaceDatabasesRef = res, !.workspaceDatabases = res,
                   !.pending = RemoveAt(@, i)]
    ELSE [d EXCEPT !.pending = RemoveAt(@, i)]

\* loadDatabaseRelations: the cache when it is filled, else a fetch.
loadDatabaseRelations(d) ==
    IF d.workspaceDatabasesRef # NoRelations THEN d ELSE StartFetch(d)

\* The effects that run when currentWorkspaceId has changed: the cache is
\* cleared, then the relations are loaded.
WorkspaceEffects(d, workspaceId) ==
    loadDatabaseRelations([d EXCEPT !.currentWorkspaceId = workspaceId,
                                    !.workspaceDatabasesRef = NoRelations,
                                    !.workspaceDatabases = NoRelations,
                                    !.switches = @ + 1])

Mounted(workspaceId) ==
    [on |-> TRUE, currentWorkspaceId |-> workspaceId, workspaceDatabasesRef |-> NoRelations,
     workspaceDatabases |-> NoRelations, pending |-> <<workspaceId>>, switches |-> 0]

InitWorkspace ==
    /\ DocAtRest
    /\ wsData \in {Mounted(w) : w \in Workspaces}
    /\ appPage = Idle
    /\ apiSvc = Idle

WorkspaceStep(d, name) ==
    /\ wsData' = d
    /\ last' = name
    /\ UNCHANGED <<quietDoc, appPage, apiSvc>>

SwitchWorkspace ==
    /\ wsData.switches < MaxSwitches
    /\ Len(wsData.pending) < MaxFetches
    /\ \E w \in Workspaces \ {wsData.currentWorkspaceId} :
           WorkspaceStep(WorkspaceEffects(wsData, w), "switchWorkspace")

\* The answer to a request: the relations of the workspace it asked for,
\* nothing, or an error that is caught.
FetchResolves ==
    \E i \in 1..Len(wsData.pending), ok \in BOOLEAN :
        WorkspaceStep(fetchAndUpdateDatabaseRelations(
                          wsData, i, IF ok THEN RelationsOf(wsData.pending[i]) ELSE NoRelations),
                      IF wsData.pending[i] = wsData.currentWorkspaceId
                      THEN "fetchResolved" ELSE "staleFetchResolved")

RefreshInBackground ==
    /\ Len(wsData.pending) < MaxFetches
    /\ WorkspaceStep(StartFetch(wsData), "refreshDatabaseRelationsInBackground")

NextWorkspace ==
    \/ SwitchWorkspace
    \/ FetchResolves
    \/ RefreshInBackground

SpecWorkspace == InitWorkspace /\ [][NextWorkspace]_vars

(***************************************************************************)
(* AppPage: the doc and the fallback view of the current view              *)
(***************************************************************************)
Views == {1, 2, 3}
NoView == 0
NoDoc == 0

\* view.layout of the views of the workspace: two documents and a chat.
LayoutOf(v) == IF v = NoView THEN "undefined" ELSE IF v = 3 THEN "AIChat" ELSE "Document"

\* outlineView: findView(outline, viewId)
outlineView(p) == IF p.viewId \in p.outline THEN p.viewId ELSE NoView

\* view = outlineView ?? fallbackView
ViewOf(p) == IF outlineView(p) # NoView THEN outlineView(p) ELSE p.fallbackView

\* The dependency arrays of the three effects in one render.
DepsOf(p) ==
    [fallback |-> <<outlineView(p), p.viewId, p.fallbackView>>,
     load |-> <<p.viewId, LayoutOf(ViewOf(p)), ViewOf(p), p.doc>>,
     chat |-> LayoutOf(ViewOf(p))]

NoDeps == [fallback |-> <<>>, load |-> <<>>, chat |-> "unmounted"]

\* The cleanup of the fallback effect: cancelled = true in its closure.
Cancelled(fetches) == [i \in 1..Len(fetches) |-> [fetches[i] EXCEPT !.cancelled = TRUE]]

\* The effect that fetches the view when the outline does not hold it.
FallbackEffect(p) ==
    IF outlineView(p) # NoView
    THEN [p EXCEPT !.fetches = Cancelled(@),
                   !.fallbackView = IF @ = p.viewId THEN NoView ELSE @]
    ELSE IF p.fallbackView = p.viewId
    THEN [p EXCEPT !.fetches = Cancelled(@)]
    ELSE [p EXCEPT !.fetches = Append(Cancelled(@), [viewId |-> p.viewId, cancelled |-> FALSE])]

\* loadPageDoc up to its await.
loadPageDoc(p, id) ==
    [p EXCEPT !.error = FALSE, !.doc = NoDoc, !.loads = Append(@, id)]

\* The effect that loads the doc of the current view.
LoadEffect(p) ==
    IF LayoutOf(ViewOf(p)) \in {"undefined", "AIChat"} THEN p
    ELSE IF p.lastLoadedViewIdRef = p.viewId /\ p.doc = p.viewId THEN p
    ELSE loadPageDoc([p EXCEPT !.lastLoadedViewIdRef = p.viewId], p.viewId)

\* The effect on [layout].
ChatEffect(p) ==
    IF LayoutOf(ViewOf(p)) = "AIChat" THEN [p EXCEPT !.doc = NoDoc, !.error = FALSE] ELSE p

\* One commit: the effects whose dependencies changed run on the values of
\* this render; their state updates are applied together.
AfterEffects(p, prev) ==
    LET f == IF DepsOf(p).fallback # prev.fallback THEN FallbackEffect(p) ELSE p
        l == IF DepsOf(p).load # prev.load THEN LoadEffect(p) ELSE p
        c == IF DepsOf(p).chat # prev.chat THEN ChatEffect(p) ELSE p
    IN  [p EXCEPT !.fallbackView = f.fallbackView,
                  !.fetches = f.fetches,
                  !.lastLoadedViewIdRef = l.lastLoadedViewIdRef,
                  !.loads = l.loads,
                  !.doc = IF l.doc = NoDoc \/ c.doc = NoDoc THEN NoDoc ELSE @,
                  !.error = l.error /\ c.error]

\* viewDom shown in place of a doc that does not belong to the view.
viewDom_mut(p) ==
    IF p.doc # NoDoc /\ ViewOf(p) # NoView /\ ~p.error
    THEN [doc |-> p.doc, viewMeta |-> ViewOf(p)]
    ELSE [doc |-> NoDoc, viewMeta |-> NoView]

\* viewDom and the render: the Document or DatabaseView that is shown, with
\* its doc and view meta, or none.
viewDom(p) ==
    LET docForCurrentView == IF p.doc # NoDoc /\ p.doc = p.viewId THEN p.doc ELSE NoDoc
    IN  IF docForCurrentView # NoDoc /\ ViewOf(p) # NoView /\ ~p.error
        THEN [doc |-> docForCurrentView, viewMeta |-> ViewOf(p)]
        ELSE [doc |-> NoDoc, viewMeta |-> NoView]

NoEvent == [kind |-> "none", id |-> NoView, cancelled |-> FALSE]

\* The first render, before any effect has run.
FirstRender(viewId, outline) ==
    [on |-> TRUE, viewId |-> viewId, outline |-> outline, fallbackView |-> NoView,
     doc |-> NoDoc, error |-> FALSE, lastLoadedViewIdRef |-> NoView, loads |-> <<>>,
     fetches |-> <<>>, navs |-> 0, event |-> NoEvent, deps |-> NoDeps]

InitPage ==
    /\ DocAtRest
    /\ wsData = Idle
    /\ appPage \in {FirstRender(v, o) : v \in Views, o \in {{}, {1}, {1, 3}}}
    /\ apiSvc = Idle

PageStep(after, name) ==
    /\ appPage' = after
    /\ last' = name
    /\ UNCHANGED <<quietDoc, wsData, apiSvc>>

\* The effects of the last render have run.
Flushed == DepsOf(appPage) = appPage.deps

\* After a render, the effects whose dependencies changed run.
RunEffects ==
    /\ ~Flushed
    /\ Len(AfterEffects(appPage, appPage.deps).loads) <= MaxLoads
    /\ Len(AfterEffects(appPage, appPage.deps).fetches) <= MaxLoads
    /\ PageStep([AfterEffects(appPage, appPage.deps) EXCEPT !.deps = DepsOf(appPage)],
                "effects")

\* The route changes to another view.
Navigate ==
    /\ Flushed
    /\ appPage.navs < MaxNavs
    /\ \E v \in Views \ {appPage.viewId} :
           PageStep([appPage EXCEPT !.viewId = v, !.navs = @ + 1, !.event = NoEvent],
                    "navigate")

\* loadPageDoc behind its await: loadView gave the doc of the view it was
\* asked for, or threw.
loadPageDocDone(p, i, ok) ==
    [p EXCEPT !.doc = IF ok THEN p.loads[i] ELSE @,
              !.error = IF ok THEN @ ELSE TRUE,
              !.loads = RemoveAt(@, i),
              !.event = [kind |-> "load", id |-> p.loads[i], cancelled |-> FALSE]]

LoadResolves ==
    /\ Flushed
    /\ \E i \in 1..Len(appPage.loads), ok \in BOOLEAN :
           PageStep(loadPageDocDone(appPage, i, ok), "loadResolved")

\* The then-callback of service.getAppView.
getAppViewDone(p, i, found) ==
    [p EXCEPT !.fallbackView = IF ~p.fetches[i].cancelled /\ found THEN p.fetches[i].viewId ELSE @,
              !.fetches = RemoveAt(@, i),
              !.event = [kind |-> "fetch", id |-> p.fetches[i].viewId,
                         cancelled |-> p.fetches[i].cancelled]]

ViewFetchResolves ==
    /\ Flushed
    /\ \E i \in 1..Len(appPage.fetches), found \in BOOLEAN :
           PageStep(getAppViewDone(appPage, i, found), "viewFetchResolved")

\* The outline is loaded again and now holds one more view.
OutlineLoaded ==
    /\ Flushed
    /\ \E v \in Views \ appPage.outline :
           PageStep([appPage EXCEPT !.outline = @ \cup {v}, !.event = NoEvent], "outlineLoaded")

NextPage ==
    \/ RunEffects
    \/ Navigate
    \/ LoadResolves
    \/ ViewFetchResolves
    \/ OutlineLoaded

SpecPage == InitPage /\ [][NextPage]_vars

(***************************************************************************)
(* The API service: the request interceptor and the stored token           *)
(***************************************************************************)
NoToken == [access_token |-> 0, refresh_token |-> 0, expired |-> FALSE]
\* No Authorization header.
NoAuth == 0

\* The n-th token the auth server issues.
Issued(n) == [access_token |-> n, refresh_token |-> n, expired |-> FALSE]

\* getTokenParsed: the stored token, or none.
getTokenParsed(a) == a.token

\* saveGoTrueAuth(JSON.stringify(newToken))
saveGoTrueAuth(a, newToken) == [a EXCEPT !.token = newToken]

\* invalidToken: the stored token is removed.
invalidToken(a) == [a EXCEPT !.token = NoToken]

\* The request leaves the interceptor and is sent; the Authorization header
\* is set when access_token is not empty.
Send(a, id, access_token, refreshed) ==
    [a EXCEPT !.sent = Append(@, [id |-> id, Authorization |-> access_token,
                                  refreshed |-> refreshed]),
              !.event = [kind |-> "sent", id |-> id]]

\* The interceptor that sends the request with the access token it read
\* when the refresh has failed.
interceptorAfterRefresh_mut(a, i, newToken) ==
    LET req == a.waiting[i]
        rest == [a EXCEPT !.waiting = RemoveAt(@, i)]
    IN  IF newToken = NoToken
        THEN Send(invalidToken(rest), req.id, NoAuth, FALSE)
        ELSE Send(saveGoTrueAuth([rest EXCEPT !.issued = @ + 1], newToken), req.id,
                  newToken.access_token, TRUE)

\* The request interceptor behind 'await refreshToken(refresh_token)': with
\* a new token refreshToken has saved it and the request goes out with its
\* access token; else refreshToken rejected, the stored token is
\* invalidated, the page goes to /login and the request is rejected.
interceptorAfterRefresh(a, i, newToken) ==
    LET req == a.waiting[i]
        rest == [a EXCEPT !.waiting = RemoveAt(@, i)]
    IN  IF newToken = NoToken
        THEN [invalidToken(rest) EXCEPT !.rejected = @ \cup {req.id},
                                        !.redirected = TRUE,
                                        !.event = [kind |-> "rejected", id |-> req.id]]
        ELSE Send(saveGoTrueAuth([rest EXCEPT !.issued = @ + 1], newToken), req.id,
                  newToken.access_token, TRUE)

\* The request interceptor up to its first await.
interceptor(a, id) ==
    LET token == getTokenParsed(a)
    IN  IF token = NoToken THEN Send(a, id, NoAuth, FALSE)
        ELSE IF token.expired
        THEN [a EXCEPT !.waiting = Append(@, [id |-> id, refresh_token |-> token.refresh_token]),
                       !.refreshes = @ + 1,
                       !.event = [kind |-> "refreshing", id |-> id]]
        ELSE Send(a, id, token.access_token, FALSE)

Started(token, issued) ==
    [on |-> TRUE, token |-> token, issued |-> issued, waiting |-> <<>>, sent |-> <<>>,
     rejected |-> {}, refreshes |-> 0, redirected |-> FALSE, nextRequest |-> 1,
     event |-> [kind |-> "none", id |-> 0]]

InitApi ==
    /\ DocAtRest
    /\ wsData = Idle
    /\ appPage = Idle
    /\ apiSvc \in {Started(NoToken, 0), Started(Issued(1), 1),
                   Started([Issued(1) EXCEPT !.expired = TRUE], 1)}

ApiStep(after, name) ==
    /\ apiSvc' = after
    /\ last' = name
    /\ UNCHANGED <<quietDoc, wsData, appPage>>

\* The application issues a request.
Request ==
    /\ apiSvc.nextRequest <= MaxRequests
    /\ ApiStep(interceptor([apiSvc EXCEPT !.nextRequest = @ + 1], apiSvc.nextRequest),
               "request")

\* The auth server answers a refresh with a new token.
RefreshSucceeds ==
    /\ apiSvc.issued < MaxTokens
    /\ \E i \in 1..Len(apiSvc.waiting) :
           ApiStep(interceptorAfterRefresh(apiSvc, i, Issued(apiSvc.issued + 1)),
                   "refreshSucceeded")

\* The refresh fails: the server refuses, or answers without data.
RefreshFails ==
    \E i \in 1..Len(apiSvc.waiting) :
        ApiStep(interceptorAfterRefresh(apiSvc, i, NoToken), "refreshFailed")

\* Time passes beyond expires_at of the stored token.
TokenExpires ==
    /\ apiSvc.token # NoToken
    /\ ~apiSvc.token.expired
    /\ ApiStep([apiSvc EXCEPT !.token.expired = TRUE, !.event = [kind |-> "none", id |-> 0]],
               "tokenExpired")

\* The user signs in: a new token is stored.
SignIn ==
    /\ apiSvc.token = NoToken
    /\ apiSvc.issued < MaxTokens
    /\ ApiStep([saveGoTrueAuth(apiSvc, Issued(apiSvc.issued + 1))
                    EXCEPT !.issued = @ + 1, !.event = [kind |-> "none", id |-> 0]],
               "signIn")

NextApi ==
    \/ Request
    \/ RefreshSucceeds
    \/ RefreshFails
    \/ TokenExpires
    \/ SignIn

SpecApi == InitApi /\ [][NextApi]_vars

(***************************************************************************)
(* Views of the two trees used by the properties                           *)
(***************************************************************************)
\* The block structure of an editable (sub)tree: ids and child order.
RECURSIVE BlockShape(_)
BlockShape(chs) ==
    LET bs == SelectSeq(chs, LAMBDA n : n.kind = "block")
    IN  [i \in 1..Len(bs) |-> [id |-> bs[i].blockId, ch |-> BlockShape(bs[i].children)]]

\* The block structure of the shared tree below a block.
RECURSIVE StoreShape(_, _)
StoreShape(root, id) ==
    LET kids == SelectSeq(getChildrenArray(root, id), LAMBDA k : HasBlock(root, k))
    IN  [i \in 1..Len(kids) |-> [id |-> kids[i], ch |-> StoreShape(root, kids[i])]]

\* All block elements of an editable (sub)tree, in document order.
RECURSIVE BlockNodes(_)
RECURSIVE BlockNodesOf(_)
BlockNodesOf(n) == (IF n.kind = "block" THEN <<n>> ELSE <<>>) \o BlockNodes(n.children)
BlockNodes(chs) == IF chs = <<>> THEN <<>> ELSE BlockNodesOf(Head(chs)) \o BlockNodes(Tail(chs))

BlockIdsIn(chs) == {n.blockId : n \in SeqRange(BlockNodes(chs))}

\* The ids of the block elements at or below the first node of each id in D.
IdsUnder(chs, D) ==
    UNION {LET path == findSlateEntryByBlockId(chs, d)
           IN  IF path = NoPath THEN {} ELSE BlockIdsIn(<<NodeAt(chs, path)>>) : d \in D}

\* The changed keys of the block map event of a batch, and their actions.
BatchKeys(batch) ==
    IF batch # <<>> /\ batch[1].kind = "blocks" THEN batch[1].keys ELSE <<>>

KeysOf(batch, action) ==
    {u.key : u \in {k \in SeqRange(BatchKeys(batch)) : k.action = action}}

FieldEvents(batch) == SelectSeq(batch, LAMBDA e : e.kind = "block")

\* The block map entries of the translation log.
MapTrace == SelectSeq(trace, LAMBDA e : e.action \notin {"field", "text"})

KeySeq(s) == [i \in 1..Len(s) |-> s[i].key]

IdSeq(s) == [i \in 1..Len(s) |-> s[i].id]

\* 0-based position of a block among the block children of its parent node
\* in the editable tree, -1 when the block or its parent is not there.
SlateBlockIndex(chs, parent, id) ==
    IF parent = PageId
    THEN FindIndex(IdSeq(BlockShape(chs)), id)
    ELSE LET pp == findSlateEntryByBlockId(chs, parent)
         IN  IF pp = NoPath THEN -1
             ELSE FindIndex(IdSeq(BlockShape(NodeAt(chs, pp).children)), id)

\* The parent a block had when the transaction started.
PreParents(t, id) == {p \in DOMAIN t.preChildren : id \in SeqRange(t.preChildren[p])}

(***************************************************************************)
(* Properties                                                              *)
(***************************************************************************)

\* C1: after every transaction has been translated, the editable tree has
\* the same block ids, the same parent for each block and the same child
\* order under each parent as the shared tree.
C1_TreesAgree ==
    last = "commit" => BlockShape(slate) = StoreShape(SharedRoot, PageId)

\* C2: within one block map event every 'delete' key is handled before any
\* 'add' or 'update' key, and keys of equal priority are handled in the
\* order the map exposed them.
C2_DeleteFirstStable ==
    last = "commit" =>
        LET ks == CollectUpdates(BatchKeys(lastBatch))
            dels == SelectSeq(ks, LAMBDA u : u.action = "delete")
            rest == SelectSeq(ks, LAMBDA u : u.action # "delete")
        IN  /\ KeySeq(MapTrace) = KeySeq(dels \o rest)
            /\ \A i \in 1..Len(MapTrace) : MapTrace[i].action = (dels \o rest)[i].action

\* C2 witness: a batch whose map order has an add and an update before a
\* delete has been translated.
C2_Witness ==
    /\ last = "commit"
    /\ LET ks == BatchKeys(lastBatch)
       IN  \E i, j, k \in 1..Len(ks) :
              /\ i < k /\ j < k
              /\ ks[i].action = "add" /\ ks[j].action = "update" /\ ks[k].action = "delete"

\* C3: when a batch deletes block A and adds block B under the same parent
\* at the child index A occupied, B sits at exactly that index among the
\* parent's block children in the editable tree afterwards.
C3_AddAtDeletedIndex ==
    last = "commit" =>
        \A a \in KeysOf(lastBatch, "delete"), b \in KeysOf(lastBatch, "add") :
            LET p == blocks[b].parent
            IN  (/\ p \in PreParents(txn, a)
                 /\ FindIndex(txn.preChildren[p], a) = FindIndex(getChildrenArray(SharedRoot, p), b))
                => SlateBlockIndex(slate, p, b) = FindIndex(getChildrenArray(SharedRoot, p), b)

\* C4: translating an already applied batch a second time leaves the block
\* structure of the editable tree unchanged.
C4_Idempotent ==
    [][last' = "retranslate" => BlockShape(slate') = BlockShape(slate)]_vars

\* C5: every block element of the editable tree whose block has an
\* externalTextId starts with a text element that has at least one run.
C5_TextChild ==
    \A n \in SeqRange(BlockNodes(slate)) :
        (HasBlock(SharedRoot, n.blockId) /\ blocks[n.blockId].ext # NoId)
        => /\ Len(n.children) >= 1
           /\ n.children[1].kind = "text"
           /\ Len(n.children[1].children) >= 1

C7_Delete ==
    [][last' = "commit" =>
        LET D == KeysOf(lastBatch', "delete")
        IN  /\ ~threw'
            /\ BlockIdsIn(slate') \cap BlockIdsIn(slate) = BlockIdsIn(slate) \ IdsUnder(slate, D)
            /\ (D \cap BlockIdsIn(slate)) = {} /\ KeysOf(lastBatch', "add") = {}
                   /\ FieldEvents(lastBatch') = <<>>
               => slate' = slate]_vars

\* C7 witness: one batch removed a node that had a block child and skipped
\* the delete of that child, which went with its parent.
C7_Witness ==
    /\ last = "commit"
    /\ \E i, j \in 1..Len(trace) :
          /\ i < j
          /\ trace[i].outcome = "removed"
          /\ trace[j].outcome = "not_found"
          /\ trace[i].key \in PreParents(txn, trace[j].key)

CursorPath == BlockAbove(slate, selection.anchor.path)
CursorBlock == NodeAt(slate, CursorPath).blockId

\* The handler the stated priority gives for the block of the cursor.
PriorityCase ==
    LET ty == blocks[CursorBlock].ty
    IN  IF ty # "paragraph" /\ ty \in LIST_BLOCK_TYPES /\ ParentType(SharedRoot, CursorBlock) = "quote"
        THEN "specialConversion"
        ELSE IF Len(CursorPath) > 1 /\ CanLift(SharedRoot, CursorBlock) THEN "lift"
        ELSE IF ty # "paragraph" THEN "typeConversion"
        ELSE "merge"

\* The block of the cursor is a paragraph below a list item.
NestedParagraph ==
    /\ blocks[CursorBlock].ty = "paragraph"
    /\ blocks[CursorBlock].parent # PageId
    /\ blocks[blocks[CursorBlock].parent].ty \in LIST_BLOCK_TYPES

\* The step replaced the block of the cursor by a block below its former
\* grandparent and changed no text that is still there.
Outdented ==
    /\ handler'.applied = <<"lift">>
    /\ CursorBlock \notin DOMAIN blocks'
    /\ handler'.result \in DOMAIN blocks'
    /\ blocks'[handler'.result].parent = blocks[blocks[CursorBlock].parent].parent
    /\ handler'.result \in BlockIdsIn(slate')
    /\ \A k \in DOMAIN textMap \cap DOMAIN textMap' : textMap'[k] = textMap[k]

\* C9: deleteBlockBackward at a collapsed cursor applies exactly one handler,
\* chosen in the priority special conversion, lift when nested and liftable,
\* conversion to paragraph, merge; a paragraph below a list item is outdented
\* under its former grandparent and no text is merged.
C9_HandlerPriority ==
    [][last' = "deleteBlockBackward"
       => /\ handler'.applied = <<PriorityCase>>
          /\ handler'.txns <= 1
          /\ NestedParagraph => Outdented]_vars

\* A paragraph that was below a list item has been outdented by backspace.
C9_Witness ==
    /\ last = "deleteBlockBackward"
    /\ handler.applied = <<"lift">>
    /\ handler.result \in DOMAIN blocks
    /\ blocks[handler.result].ty = "paragraph"
    /\ blocks[handler.result].parent = PageId
    /\ \E k \in DOMAIN blocks : blocks[k].ty = "bulleted_list" /\ getChildrenArray(SharedRoot, k) = <<>>

\* The block is at the boundary of the move: first child for Tab, child of
\* the page for Shift-Tab.
AtBoundary(id, shift) ==
    IF shift THEN blocks[id].parent = PageId
    ELSE FindIndex(getChildrenArray(SharedRoot, blocks[id].parent), id) = 0

TabStep == last' \in {"tabForward", "tabBackward"}

TreesUnchanged == UNCHANGED <<blocks, childrenMap, textMap, slate>>

\* C10 as stated: tabEvent changes neither tree when any block affected by
\* the selection is a first child (Tab) or a child of the page (Shift-Tab).
C10_NoOpForEveryAffected ==
    [][(/\ TabStep
        /\ \E i \in 1..Len(TabIds(slate, selection)) :
               AtBoundary(TabIds(slate, selection)[i], last' = "tabBackward"))
       => TreesUnchanged]_vars

\* C10: tabEvent changes neither tree when the block of the selection start
\* is a first child (Tab) or a child of the page (Shift-Tab).
C10_NoOpForStartBlock ==
    [][(TabStep /\ AtBoundary(TabIds(slate, selection)[1], last' = "tabBackward"))
       => TreesUnchanged]_vars

\* Shift-Tab was refused for a selection over several blocks.
C10_Witness ==
    /\ last = "tabBackward"
    /\ handler.applied = <<"prevented">>
    /\ selection # NoSel
    /\ BlockAbove(slate, selection.anchor.path) # BlockAbove(slate, selection.focus.path)

\* The depth of a block in the shared tree: 1 for a child of the page.
RECURSIVE DepthIn(_, _)
DepthIn(bs, id) == IF id = PageId \/ id \notin DOMAIN bs THEN 0 ELSE 1 + DepthIn(bs, bs[id].parent)

\* The first and the last block tabEvent works on.
StartBlock == TabIds(slate, selection)[1]
EndBlock == TabIds(slate, selection)[Len(TabIds(slate, selection))]

\* The selection runs from a block into its next sibling, and the first of
\* the two has a previous sibling to go under.
AcrossSiblings ==
    /\ StartBlock # EndBlock
    /\ blocks[StartBlock].parent = blocks[EndBlock].parent
    /\ getPreviousSiblingBlock(SharedRoot, EndBlock) = StartBlock
    /\ getPreviousSiblingBlock(SharedRoot, StartBlock) # NoId

\* The block of a point of the editable tree after the step.
BlockOfNext(pt) == NodeAt(slate', BlockAbove(slate', pt.path)).blockId

\* Both blocks went one level deeper in their order, and the selection
\* runs from the first into the second at the sub-paths and offsets it had.
IndentedTogether ==
    LET a == BlockOfNext(selection'.anchor)
        b == BlockOfNext(selection'.focus)
        under == getPreviousSiblingBlock(SharedRoot, StartBlock)
        kids == childrenMap'[under]
        from == Edges(selection)
    IN  /\ a = handler'.result
        /\ a # b
        /\ {a, b} \cap DOMAIN blocks = {}
        /\ {StartBlock, EndBlock} \cap DOMAIN blocks' = {}
        /\ blocks'[a].parent = under /\ blocks'[b].parent = under
        /\ DepthIn(blocks', a) = DepthIn(blocks, StartBlock) + 1
        /\ DepthIn(blocks', b) = DepthIn(blocks, EndBlock) + 1
        /\ textMap'[a] = textMap[StartBlock] /\ textMap'[b] = textMap[EndBlock]
        /\ FindIndex(kids, b) = FindIndex(kids, a) + 1
        /\ findSlateEntryByBlockId(slate', a) = BlockAbove(slate', selection'.anchor.path)
        /\ RelativeAt(selection'.anchor, BlockAbove(slate', selection'.anchor.path))
               = RelativeAt(from[1], BlockAbove(slate, from[1].path))
        /\ RelativeAt(selection'.focus, BlockAbove(slate', selection'.focus.path))
               = RelativeAt(from[2], BlockAbove(slate, from[2].path))

Yields ==
    LET in == handler.input
    IN  << IF in.newSelection # NoSel THEN in.nearestFromCalculated ELSE NoSel,
           in.nearestFromOriginal,
           IF in.newStartBlockPath # <<>> /\ in.startOfBlock # NoPoint /\ in.validStart
           THEN Collapsed(in.startOfBlock) ELSE NoSel,
           in.documentSelection >>

StrategyNames == <<"nearestFromCalculated", "nearestFromOriginal", "startOfBlock", "document">>

\* The recombined selection was not usable.
ChainEntered ==
    last = "restore" /\ ~(handler.input.newSelection # NoSel /\ handler.input.valid)

\* C12: when the recombined selection is not valid, the selection is what
\* the first yielding strategy gives, in the order nearest of calculated,
\* nearest of original, start of the new start block, any in the document;
\* no later strategy is attempted, and the selection is unset when none yields.
C12_FallbackOrder ==
    ChainEntered
    => IF \E i \in 1..4 : Yields[i] # NoSel
       THEN LET first == CHOOSE i \in 1..4 :
                             Yields[i] # NoSel /\ \A j \in 1..(i - 1) : Yields[j] = NoSel
            IN  /\ selection = Yields[first]
                /\ handler.applied = <<StrategyNames[first]>>
                /\ \A k \in 1..Len(handler.affected) :
                       FindIndex(StrategyNames, handler.affected[k]) < first
                /\ handler.affected[Len(handler.affected)] = StrategyNames[first]
       ELSE selection = NoSel /\ handler.applied = <<"none">>

\* The third strategy won after the first two were attempted and failed.
C12_Witness ==
    /\ ChainEntered
    /\ handler.applied = <<"startOfBlock">>
    /\ handler.affected = <<"nearestFromCalculated", "nearestFromOriginal", "startOfBlock">>
    /\ handler.input.documentSelection # NoSel
    /\ selection = Collapsed(handler.input.startOfBlock)

\* C13 as stated: a verb that changes several blocks changes the shared
\* tree in one transaction, so the translator is handed one batch and no
\* state with only some of the blocks changed is seen between two batches.
C13_OneTransaction ==
    last \in {"tabForward", "tabBackward"} /\ Len(handler.affected) > 1 => handler.txns <= 1


(***************************************************************************)
(* Block verbs                                                             *)
(***************************************************************************)
\* deleteBlock removed the only child of the container it names.
DeletedOnlyChild ==
    /\ last' = "deleteBlock"
    /\ handler'.applied # <<>>
    /\ Len(childrenMap[handler'.result]) = 1

\* The container holds exactly one child, an empty paragraph.
HoldsPlaceholder(bs, cm, tm, parent) ==
    /\ Len(cm[parent]) = 1
    /\ bs[cm[parent][1]].ty = "paragraph"
    /\ cm[cm[parent][1]] = <<>>
    /\ bs[cm[parent][1]].ext \in DOMAIN tm
    /\ tm[bs[cm[parent][1]].ext] = 0

\* C14: deleting, through deleteBlock, the only child of a container (the
\* page or a nested container) leaves the container with exactly one child,
\* a default empty paragraph, never with zero children.
C14_DeleteOnlyChild ==
    [][DeletedOnlyChild => HoldsPlaceholder(blocks', childrenMap', textMap', handler'.result)]_vars

\* The same for the page alone, where the placeholder is inserted.
C14_PagePlaceholder ==
    [][DeletedOnlyChild /\ handler'.result = PageId
         => HoldsPlaceholder(blocks', childrenMap', textMap', PageId)]_vars


\* The block turnToBlock was invoked on, and whether the requested type and
\* data are the block's own.
TurnStep == last' = "turnToBlock"
TurnedBlock == handler'.affected[1]
TurnUnchanged ==
    /\ blocks[TurnedBlock].ty = handler'.input.type
    /\ blocks[TurnedBlock].data = handler'.input.data

\* C15: turnToBlock with the block's current type and data runs no
\* transaction, leaves the shared tree unchanged and returns nothing; in
\* every other case it runs exactly one turnToBlock transaction and returns
\* the id of the resulting block, which has the requested type and data.
C15_TurnToBlock ==
    [][TurnStep =>
         IF TurnUnchanged
         THEN /\ handler'.txns = 0
              /\ handler'.result = NoId
              /\ UNCHANGED <<blocks, childrenMap, textMap>>
         ELSE /\ handler'.txns = 1
              /\ handler'.applied = <<"turnToBlock">>
              /\ handler'.result \in DOMAIN blocks'
              /\ blocks'[handler'.result].ty = handler'.input.type
              /\ blocks'[handler'.result].data = handler'.input.data]_vars

\* A turnToBlock that kept the type and changed the data came back with the
\* resulting block.
C15_Witness ==
    /\ last = "turnToBlock"
    /\ handler.txns = 1
    /\ handler.affected[1] \notin DOMAIN blocks
    /\ blocks[handler.result].ty = "todo_list"
    /\ blocks[handler.result].data = EmptyData


\* duplicateBlock made a copy; the block it copied and the reference block.
DuplicateStep == last' = "duplicateBlock" /\ handler'.applied # <<>>
Copy == handler'.result
Source == handler'.affected[1]
Reference == handler'.affected[2]

\* The copy is a deep copy of the source: same type, data and shape below.
DeepCopyOf(copy, source) ==
    /\ blocks'[copy].ty = blocks[source].ty
    /\ blocks'[copy].data = blocks[source].data
    /\ Len(Subtree([blocks |-> blocks', childrenMap |-> childrenMap', textMap |-> textMap'], copy))
           = Len(Subtree(SharedRoot, source))

\* C16: duplicateBlock(blockId, prevId) places one deep copy of the block
\* right behind the reference block: the copy's parent is the reference
\* block's parent and its index the reference block's index + 1, also when
\* prevId has another parent than blockId.
C16_CopyBehindReference ==
    [][DuplicateStep =>
         /\ DeepCopyOf(Copy, Source)
         /\ blocks'[Copy].parent = blocks[Reference].parent
         /\ getBlockIndex([blocks |-> blocks', childrenMap |-> childrenMap', textMap |-> textMap'], Copy)
                = getBlockIndex(SharedRoot, Reference) + 1]_vars

\* The same when the reference block is a sibling of the source or the
\* source itself.
C16_CopyBehindSibling ==
    [][DuplicateStep /\ blocks[Reference].parent = blocks[Source].parent =>
         /\ DeepCopyOf(Copy, Source)
         /\ blocks'[Copy].parent = blocks[Reference].parent
         /\ getBlockIndex([blocks |-> blocks', childrenMap |-> childrenMap', textMap |-> textMap'], Copy)
                = getBlockIndex(SharedRoot, Reference) + 1]_vars


\* toggleTodoList was invoked on the block, which it found.
ToggleStep == last' \in {"toggleTodoList", "toggleTodoListAll"} /\ handler'.applied # <<>>
Toggled == handler'.result

\* The todo list blocks of the block's subtree, the block included.
TodoSubtree(id) ==
    {b \in SeqRange(Subtree(SharedRoot, id)) : blocks[b].ty = "todo_list"}

\* Only the checked field of the given blocks differs from before.
OnlyCheckedOf(ids) ==
    /\ DOMAIN blocks' = DOMAIN blocks
    /\ UNCHANGED <<childrenMap, textMap>>
    /\ \A b \in DOMAIN blocks :
           /\ blocks'[b].parent = blocks[b].parent
           /\ blocks'[b].ty = blocks[b].ty
           /\ blocks'[b].ext = blocks[b].ext
           /\ b \notin ids => blocks'[b].data = blocks[b].data
           /\ b \in ids => \A f \in DataFields \ {"checked"} : blocks'[b].data[f] = blocks[b].data[f]

\* C17: without the modifier toggleTodoList flips data.checked of the given
\* block only; with the modifier it sets data.checked of the block and of
\* every todo list block of its subtree to the negation of the given
\* block's previous value, and changes no block outside the subtree and no
\* other field.
C17_Toggle ==
    [][ToggleStep =>
         IF last' = "toggleTodoList"
         THEN /\ OnlyCheckedOf({Toggled})
              /\ blocks'[Toggled].data.checked = Negated(blocks[Toggled].data.checked)
         ELSE /\ OnlyCheckedOf(TodoSubtree(Toggled))
              /\ \A b \in TodoSubtree(Toggled) :
                     blocks'[b].data.checked = Negated(blocks[Toggled].data.checked)]_vars

\* What holds: without the modifier as claimed; with it, the blocks of the
\* subtree are set as claimed and the todo list blocks above the given
\* block are set as well.
TodoAbove(id) ==
    {b \in DOMAIN blocks : /\ blocks[b].ty = "todo_list"
                           /\ id \in SeqRange(Subtree(SharedRoot, b))}

C17_ToggleWithAncestors ==
    [][ToggleStep =>
         IF last' = "toggleTodoList"
         THEN /\ OnlyCheckedOf({Toggled})
              /\ blocks'[Toggled].data.checked = Negated(blocks[Toggled].data.checked)
         ELSE /\ OnlyCheckedOf(TodoSubtree(Toggled) \cup TodoAbove(Toggled))
              /\ \A b \in TodoSubtree(Toggled) \cup TodoAbove(Toggled) :
                     blocks'[b].data.checked = Negated(blocks[Toggled].data.checked)]_vars


(***************************************************************************)
(* Selection repair                                                        *)
(***************************************************************************)
HasTextNode == LeafPaths(slate, <<>>) # <<>>

\* C18: on an editable tree with at least one text-bearing node
\* findNearestValidSelection returns a non-null selection that passes
\* isValidSelection, for every well-formed candidate, null and stale ones
\* included; hence the fallback chain of tabEvent ends with the selection
\* unset only when the tree has no text-bearing node.
C18_RepairTotal ==
    /\ last = "findNearestValidSelection" /\ HasTextNode
           => selection # NoSel /\ isValidSelection(slate, selection)
    /\ last = "restoreSelection" /\ HasTextNode
           => selection # NoSel /\ isValidSelection(slate, selection)
    /\ last \in {"findNearestValidSelection", "restoreSelection"} /\ ~HasTextNode
           => selection = NoSel

\* A candidate whose anchor path no longer exists was repaired.
C18_Witness ==
    /\ last = "findNearestValidSelection"
    /\ handler.input # NoSel
    /\ ~HasPath(slate, handler.input.anchor.path)
    /\ HasTextNode
    /\ isValidSelection(slate, selection)


\* C19: after any tabEvent invoked with a selection on a document with at
\* least one text-bearing node the selection is set and valid, on every
\* return path; it is unset only for a document without text.
C19_SelectionAfterTab ==
    last \in {"tabForward", "tabBackward"} /\ HasTextNode
        => selection # NoSel /\ isValidSelection(slate, selection)

\* The same for the calls that do not return early for want of a new
\* block id or of the new block's entry.
C19_SelectionAfterRestore ==
    /\ last \in {"tabForward", "tabBackward"}
    /\ HasTextNode
    /\ handler.applied \notin {<<"noNewId">>, <<"noEntry">>}
    => selection # NoSel /\ isValidSelection(slate, selection)


(***************************************************************************)
(* The static route                                                        *)
(***************************************************************************)
\* The request is a GET for a static prefix or a static file name.
StaticRequest ==
    /\ last = "staticRoute"
    /\ handler.input.method = "GET"
    /\ \/ \E p \in STATIC_PATHS : StartsWith(handler.input.pathname, p)
       \/ handler.input.pathname \in STATIC_FILES

\* The request path behind its leading slash, decoded once.
DecodedOnce == decodeURIComponent(Tail(handler.input.pathname))

\* C20: for a GET request that matches a static prefix or file name the
\* route reads a file only at a path inside distDir; a path that contains
\* '..' after one URL-decoding is answered 403 Forbidden and a path with
\* invalid URL encoding 400, both without a call of readFileSync.
C20_StaticInsideDistDir ==
    StaticRequest =>
        /\ \A i \in 1..Len(handler.affected) : InsideDistDir(handler.affected[i])
        /\ DecodedOnce.ok /\ IncludesDotDot(DecodedOnce.out)
               => handler.result = 403 /\ handler.applied = <<"Forbidden">> /\ handler.affected = <<>>
        /\ ~DecodedOnce.ok => handler.result = 400 /\ handler.affected = <<>>

\* A traversal that only shows after decoding was refused.
C20_Witness ==
    /\ StaticRequest
    /\ ~IncludesDotDot(handler.input.pathname)
    /\ DecodedOnce.ok
    /\ IncludesDotDot(DecodedOnce.out)
    /\ handler.result = 403
    /\ handler.affected = <<>>


(***************************************************************************)
(* The route chain                                                         *)
(***************************************************************************)
\* C21: the route chain answers every non-GET request with status 405;
\* staticRoute, marketingRoute and publishRoute give no response for it,
\* read no file and fetch no metadata, for any path, static and marketing
\* paths included.
C21_NonGetIs405 ==
    last = "routes" /\ handler.input.method # "GET" =>
        /\ handler.result = 405
        /\ handler.applied = <<"methodNotAllowed">>
        /\ handler.affected = <<>>
        /\ handler.txns = 0

\* A POST to a marketing path was answered 405.
C21_Witness ==
    /\ last = "routes"
    /\ handler.input.method = "POST"
    /\ \E p \in MARKETING_PATHS : StartsWith(handler.input.pathname, p)
    /\ handler.result = 405


(***************************************************************************)
(* Field changes of one block                                              *)
(***************************************************************************)
\* The batch translated by the step is one field change event of one block.
SingleFieldEvent ==
    /\ last' = "commit"
    /\ Len(lastBatch') = 1
    /\ lastBatch'[1].kind = "block"

ChangedBlock == lastBatch'[1].id

\* C22: a single-block field change event for block k changes only the
\* data of the editable node of k, to the block's current data: the node
\* stays at its path with its children and blockId, no other node changes,
\* and without a node for k the editable tree is unchanged.
C22_FieldChangeOnly ==
    [][SingleFieldEvent =>
         LET path == findSlateEntryByBlockId(slate, ChangedBlock)
         IN  IF path = NoPath THEN slate' = slate
             ELSE /\ findSlateEntryByBlockId(slate', ChangedBlock) = path
                  /\ NodeAt(slate', path).data = blocks'[ChangedBlock].data
                  /\ NodeAt(slate', path).children = NodeAt(slate, path).children
                  /\ NodeAt(slate', path).blockId = ChangedBlock
                  /\ SetNodeData(slate', path, NodeAt(slate, path).data) = slate]_vars

\* A field change event reached a nested node that has a text child, and
\* the node carries the new data.
C22_Witness ==
    /\ last = "commit"
    /\ Len(lastBatch) = 1
    /\ lastBatch[1].kind = "block"
    /\ LET path == findSlateEntryByBlockId(slate, lastBatch[1].id)
       IN  /\ path # NoPath
           /\ NodeAt(slate, path).children # <<>>
           /\ NodeAt(slate, path).data = blocks[lastBatch[1].id].data


(***************************************************************************)
(* A parent and its child added by one batch                               *)
(***************************************************************************)
\* The keys the batch adds, in the order they are handled.
AddedKeys(batch) ==
    KeySeq(SelectSeq(SortUpdates(CollectUpdates(BatchKeys(batch))), LAMBDA u : u.action = "add"))

\* The batch adds the nested block P and then its child C.
AddsParentThenChild(batch, bs, P, C) ==
    /\ P \in DOMAIN bs /\ C \in DOMAIN bs
    /\ bs[C].parent = P
    /\ bs[P].parent # NoId
    /\ P # PageId
    /\ FindIndex(AddedKeys(batch), P) >= 0
    /\ FindIndex(AddedKeys(batch), P) < FindIndex(AddedKeys(batch), C)

\* The path of the node of the block, and the node's place among the block
\* children of its parent node.
NodePathOf(ed, id) == findSlateEntryByBlockId(ed, id)

C23_CacheNeverUsed ==
    [][last' = "commit" => translateYEvents(SharedRoot', slate, lastBatch').cached = {}]_vars

C23_WitnessInserted ==
    /\ last = "commit"
    /\ \E P \in BlockIds, C \in BlockIds :
           /\ AddsParentThenChild(lastBatch, blocks, P, C)
           /\ NodePathOf(slate, P) # NoPath
           /\ Front(NodePathOf(slate, C)) = NodePathOf(slate, P)


(***************************************************************************)
(* deleteBlock: cursor placement and deletion                              *)
(***************************************************************************)
\* deleteBlock was invoked on a block whose parent is in the shared tree.
DeleteBlockStep ==
    /\ last' = "deleteBlock"
    /\ blocks[handler'.input.blockId].parent \in DOMAIN blocks

Deleted == handler'.input.blockId
DeletedPrev == getPreviousSiblingBlock(SharedRoot, Deleted)
DeletedParent == blocks[Deleted].parent

\* The block whose node gives the cursor target, or NoId for no target.
TargetBlock ==
    IF DeletedPrev # NoId THEN DeletedPrev
    ELSE IF blocks[DeletedParent].ty # "page" THEN DeletedParent
    ELSE NoId

\* The cursor target: the end of the previous sibling, else the start of
\* the parent; NoPoint when Slate finds no text there.
TargetPoint ==
    IF DeletedPrev # NoId THEN EditorEnd(slate, findSlateEntryByBlockId(slate, DeletedPrev))
    ELSE EditorStart(slate, findSlateEntryByBlockId(slate, DeletedParent))

TargetHasNode == TargetBlock # NoId /\ findSlateEntryByBlockId(slate, TargetBlock) # NoPath

C24_WitnessSelected ==
    /\ last = "deleteBlock"
    /\ handler.input.target = "point"
    /\ handler.input.hasRange
    /\ selection # NoSel
    /\ handler.input.blockId \notin DOMAIN blocks

\* C26: whenever deleteBlock is called for a block whose parent is in the
\* shared tree, the deleteBlock transaction runs and the block is absent
\* from the shared tree afterwards, also when the previous sibling or the
\* parent has no node in the editable tree.
C26_AlwaysDeletes ==
    [][DeleteBlockStep =>
         /\ handler'.applied # <<>>
         /\ handler'.applied[1] = "deleteBlock"
         /\ Deleted \notin DOMAIN blocks']_vars

\* The same when the block that gives the cursor target has a node, or
\* there is no target.
C26_DeletesWithNode ==
    [][DeleteBlockStep /\ (TargetBlock = NoId \/ TargetHasNode) =>
         /\ handler'.applied # <<>>
         /\ handler'.applied[1] = "deleteBlock"
         /\ Deleted \notin DOMAIN blocks']_vars


(***************************************************************************)
(* Who writes the editable tree                                            *)
(***************************************************************************)
\* C25: the editable tree is written only by the translator: a command
\* verb that ran no shared-store transaction leaves the editable tree as
\* it was.
C25_TreeWrittenByTranslatorOnly ==
    [][handler'.txns = 0 => slate' = slate]_vars

\* The verbs that run a transaction change the editable tree through it:
\* the tree afterwards is the translation of the shared tree.
C25_TransactionVerbs ==
    [][handler'.txns > 0 /\ slate = ScratchChildren(SharedRoot)
           => slate' = ScratchChildren(SharedRoot')]_vars


(***************************************************************************)
(* Several siblings added by one batch                                     *)
(***************************************************************************)
\* The children of the node of block P in the editable tree.
NodeChildren(ed, P) ==
    IF P = PageId THEN ed ELSE NodeAt(ed, findSlateEntryByBlockId(ed, P)).children

\* The ids of the block children of the node of block P.
NodeChildIds(ed, P) == IdSeq(BlockShape(NodeChildren(ed, P)))

\* The batch only adds blocks, at least two of them, all of them children
\* of P; P is the page or has a node whose block children are the children
\* P had before the transaction.
AddsSiblings(batch, t, ed, root, P) ==
    /\ Len(AddedKeys(batch)) >= 2
    /\ Len(batch) = 1
    /\ \A u \in SeqRange(BatchKeys(batch)) : u.action = "add"
    /\ \A k \in SeqRange(AddedKeys(batch)) :
           /\ root.blocks[k].parent = P
           /\ k \in SeqRange(getChildrenArray(root, P))
    /\ P \in t.pre
    /\ P = PageId \/ findSlateEntryByBlockId(ed, P) # NoPath
    /\ NodeChildIds(ed, P) = t.preChildren[P]

\* The first child of the node of a text-bearing block is its text element.
TextFirst(ed, P) ==
    P # PageId /\ NodeChildren(ed, P) # <<>> /\ NodeChildren(ed, P)[1].kind = "text"

\* C27: when a block map event adds several new sibling blocks under one
\* parent (the page or a nested parent that has its node), all of them are
\* in the editable tree afterwards, in the parent's shared-tree child order,
\* for every order of the added keys; the text element of a text-bearing
\* parent stays its first child.
C27_SiblingsInOrder ==
    [][last' = "commit" =>
         \A P \in DOMAIN blocks :
             AddsSiblings(lastBatch', txn, slate, SharedRoot', P) =>
                 /\ NodeChildIds(slate', P) = getChildrenArray(SharedRoot', P)
                 /\ TextFirst(slate, P) => TextFirst(slate', P)]_vars

\* The same for the batches whose keys come in the order of the parent's
\* children.
C27_InOrderWhenKeysInOrder ==
    [][last' = "commit" =>
         \A P \in DOMAIN blocks :
             /\ AddsSiblings(lastBatch', txn, slate, SharedRoot', P)
             /\ AddedKeys(lastBatch') = SelectSeq(getChildrenArray(SharedRoot', P),
                                                  LAMBDA k : k \in SeqRange(AddedKeys(lastBatch')))
             => /\ NodeChildIds(slate', P) = getChildrenArray(SharedRoot', P)
                /\ TextFirst(slate, P) => TextFirst(slate', P)]_vars

\* The text element stays the first child in every such batch.
C27_TextStaysFirst ==
    [][last' = "commit" =>
         \A P \in DOMAIN blocks :
             AddsSiblings(lastBatch', txn, slate, SharedRoot', P) /\ TextFirst(slate, P)
                 => TextFirst(slate', P)]_vars


(***************************************************************************)
(* The relations cache and the current workspace                           *)
(***************************************************************************)
\* C28: the database relations cache never holds relations of a workspace
\* other than the current one: a fetch started for an earlier workspace
\* that resolves after the switch does not write into the cache.
C28_CacheOfCurrentWorkspace ==
    wsData.on =>
        /\ wsData.workspaceDatabasesRef \in {NoRelations, RelationsOf(wsData.currentWorkspaceId)}
        /\ wsData.workspaceDatabases \in {NoRelations, RelationsOf(wsData.currentWorkspaceId)}

\* The switch itself leaves the cache empty.
C28_ClearedOnSwitch ==
    [][last' = "switchWorkspace" =>
           /\ wsData'.workspaceDatabasesRef = NoRelations
           /\ wsData'.workspaceDatabases = NoRelations]_vars


(***************************************************************************)
(* What AppPage renders                                                    *)
(***************************************************************************)
\* C29: AppPage renders a Document or DatabaseView only with a doc whose
\* object_id is the current viewId, whatever the order of navigations and
\* loadView completions; and a fallback view fetched for an earlier viewId
\* is not stored once its effect was cleaned up.
C29_RendersDocOfCurrentView ==
    [][/\ viewDom(appPage').doc # NoDoc => viewDom(appPage').doc = appPage'.viewId
       /\ appPage'.event.kind = "fetch" /\ appPage'.event.cancelled
              => appPage'.fallbackView = appPage.fallbackView]_vars

\* The doc of a view that is no longer the current one has arrived and is
\* held in the state; nothing is rendered with it.
C29_Witness ==
    /\ appPage.on
    /\ last = "loadResolved"
    /\ appPage.doc # NoDoc
    /\ appPage.doc # appPage.viewId
    /\ ViewOf(appPage) # NoView
    /\ LayoutOf(ViewOf(appPage)) = "Document"
    /\ ~appPage.error
    /\ viewDom(appPage).doc = NoDoc

\* The answer to a cancelled view fetch has arrived and was dropped.
C29_WitnessCancelled ==
    /\ appPage.on
    /\ last = "viewFetchResolved"
    /\ appPage.event.cancelled
    /\ appPage.event.id # appPage.viewId
    /\ appPage.fallbackView # appPage.event.id


(***************************************************************************)
(* Requests and the stored token                                           *)
(***************************************************************************)
\* The request the step has sent, when it has sent one.
SentNow == apiSvc'.sent[Len(apiSvc'.sent)]

\* C30: a request issued while the stored token is expired is sent only
\* after a successful refresh and carries the refreshed access token; when
\* the refresh fails the stored token is invalidated and the request is
\* rejected, never sent; a request issued with no stored token is sent
\* without an Authorization header and starts no refresh.
C30_RequestsAndRefresh ==
    [][/\ last' = "request" /\ apiSvc.token # NoToken /\ apiSvc.token.expired
              => /\ apiSvc'.sent = apiSvc.sent
                 /\ apiSvc'.refreshes = apiSvc.refreshes + 1
       /\ last' = "refreshSucceeded"
              => /\ Len(apiSvc'.sent) = Len(apiSvc.sent) + 1
                 /\ SentNow.id = apiSvc'.event.id
                 /\ SentNow.Authorization = apiSvc'.token.access_token
                 /\ SentNow.Authorization # NoAuth
                 /\ SentNow.Authorization \notin
                        {apiSvc.sent[j].Authorization : j \in 1..Len(apiSvc.sent)}
                 /\ apiSvc'.event.id \in {apiSvc.waiting[j].id : j \in 1..Len(apiSvc.waiting)}
       /\ last' = "refreshFailed"
              => /\ apiSvc'.token = NoToken
                 /\ apiSvc'.event.id \in apiSvc'.rejected
                 /\ apiSvc'.sent = apiSvc.sent
       /\ last' = "request" /\ apiSvc.token = NoToken
              => /\ Len(apiSvc'.sent) = Len(apiSvc.sent) + 1
                 /\ SentNow.Authorization = NoAuth
                 /\ apiSvc'.refreshes = apiSvc.refreshes
                 /\ apiSvc'.waiting = apiSvc.waiting]_vars

\* One request went out with a refreshed token, another was rejected after
\* its refresh failed, and nothing was sent for it.
C30_Witness ==
    /\ apiSvc.on
    /\ \E j \in 1..Len(apiSvc.sent) : apiSvc.sent[j].refreshed /\ apiSvc.sent[j].Authorization # NoAuth
    /\ apiSvc.rejected # {}
    /\ \A j \in 1..Len(apiSvc.sent) : apiSvc.sent[j].id \notin apiSvc.rejected
    /\ apiSvc.token = NoToken

\* A request was sent without a header while no token was stored.
C30_WitnessNoToken ==
    /\ apiSvc.on
    /\ last = "request"
    /\ apiSvc.token = NoToken
    /\ apiSvc.refreshes = 0
    /\ apiSvc.sent # <<>>
    /\ apiSvc.sent[Len(apiSvc.sent)].Authorization = NoAuth

====
